---- MODULE Spec2Model ----

(***************************************************************************)
(* TiaCAD build core: dependency graph construction (GraphBuilder,         *)
(* ModelGraph), part registry (Part, PartRegistry), parameter resolution   *)
(* (ParameterResolver) and the boolean builder, as state machines.         *)
(***************************************************************************)
EXTENDS Integers, Sequences, FiniteSets, TLC

VARIABLES
    doc,          \* the pre-parsed document handed to build_graph
    gstate,       \* "loaded" | "built" | "failed"
    error,        \* "" | "CircularDependency" | "TypeError"
    nodes,        \* ModelGraph.nodes, in insertion order
    edges,        \* ModelGraph.graph edges, <<dependency, dependent>>
    cycle,        \* the cycle named by the GraphBuilderError
    order,        \* last list returned by topological_sort
    is_valid,     \* GraphNode.is_valid, per node id
    valid_nodes,  \* ModelGraph.valid_nodes
    lastCall,     \* the last ModelGraph call and its argument
    raw_parameters,    \* ParameterResolver.raw_parameters, in dict order
    resolved_cache,    \* ParameterResolver.resolved_cache
    resolution_stack,  \* ParameterResolver.resolution_stack
    rlast,             \* the last ParameterResolver call and its outcome
    registry,     \* PartRegistry._parts: name -> Part object, in insertion order
    heap,         \* the Part objects, by object id
    lists,        \* the list objects held in metadata (finishing_ops), by id
    plast,        \* the last registry / builder call and its outcome
    bstate,       \* the build: "idle" | "running" | "done" | "aborted"
    dispatched,   \* node ids dispatched so far, in dispatch order
    sketch_table, \* the sketches built so far, by name
    outputs,      \* what each dispatched node wrote
    previous,     \* hashes and outputs of the build before the last edit
    tracker,      \* a TransformTracker: geometry, positions and history
    tlast,        \* the last TransformTracker / Part call and its outcome
    shape,        \* the geometry a SelectorResolver is asked about
    slast         \* the last SelectorResolver.resolve call and its outcome

gvars == <<doc, gstate, error, nodes, edges, cycle, order, is_valid,
           valid_nodes, lastCall>>

rvars == <<raw_parameters, resolved_cache, resolution_stack, rlast>>

pvars == <<registry, heap, lists, plast>>

bvars == <<bstate, dispatched, sketch_table, outputs, previous>>

xvars == <<tracker, tlast, shape, slast>>

vars == <<gvars, rvars, pvars, bvars, xvars>>

\* no tracker constructed, no call made, no geometry looked at
NoTracker == <<>>

NoTransformCall == [op |-> "none", ok |-> TRUE, error |-> ""]

NoShape == <<>>

NoSelection == [op |-> "none", ok |-> TRUE, error |-> ""]

(***************************************************************************)
(* Bounds                                                                  *)
(***************************************************************************)
MaxDecls == 3
MaxMarks == 2
MaxParams == 2
MaxObjects == 3
MaxFinishing == 2
\* frames of get_parameter the interpreter allows before RecursionError
RecursionLimit == 6

(***************************************************************************)
(* Generic helpers                                                         *)
(***************************************************************************)
Range(s) == {s[i] : i \in 1..Len(s)}

NoDup(s) == \A i, j \in 1..Len(s) : i # j => s[i] # s[j]

SeqsUpTo(S, n) == UNION {[1..k -> S] : k \in 0..n}

NONE == ""

(***************************************************************************)
(* Documents.  A section is an ordered mapping name -> spec, kept as a     *)
(* sequence of [name, spec] in declaration order.                          *)
(***************************************************************************)
ParamNames == {"a", "b"}

\* operands of an expression: a parameter name or an integer literal
Name(n) == [n |-> n, c |-> 0]
Const(c) == [n |-> NONE, c |-> c]

\* a raw value: a number, or the string "${l op r}" ("${l}" when op = "id")
Lit(v) == [kind |-> "lit", v |-> v, op |-> NONE, l |-> Const(0), r |-> Const(0)]
Expr(op, l, r) == [kind |-> "expr", v |-> 0, op |-> op, l |-> l, r |-> r]
RefTo(n) == Expr("id", Name(n), Const(0))

ParamValues == {Lit(10)} \cup {RefTo(n) : n \in ParamNames}

Names(section) == {section[i].name : i \in 1..Len(section)}

\* list entries of inputs / subtract: a plain name or wildcard (both Python
\* str), or a {pattern: ...} / {range: ...} mapping (Python dict)
Plain(n)       == [kind |-> "name", base |-> n, lo |-> 0, hi |-> 0]
Wildcard(n)    == [kind |-> "wildcard", base |-> n, lo |-> 0, hi |-> 0]
PatternOf(n)   == [kind |-> "pattern", base |-> n, lo |-> 0, hi |-> 0]
RangeOf(n,l,h) == [kind |-> "range", base |-> n, lo |-> l, hi |-> h]

OpSpec(t, fin, in, bs, sk, ins, sub) ==
    [type |-> t, finish |-> fin, input |-> in, base |-> bs, sketch |-> sk,
     inputs |-> ins, subtract |-> sub]

SketchSpecs == {[width |-> Lit(10)], [width |-> RefTo("a")]}

PartSpecs == {[primitive |-> "box", width |-> Lit(10), sketch |-> NONE],
              [primitive |-> "box", width |-> RefTo("a"), sketch |-> NONE],
              [primitive |-> "extrude", width |-> Lit(10), sketch |-> "s"]}

OpSpecs ==
    {OpSpec("transform", NONE, in, NONE, NONE, <<>>, <<>>) : in \in {"p", "x", "y"}}
    \cup {OpSpec("finishing", "fillet", "p", NONE, NONE, <<>>, <<>>),
          OpSpec("pattern", NONE, "p", NONE, NONE, <<>>, <<>>),
          OpSpec("extrude", NONE, NONE, NONE, "s", <<>>, <<>>),
          OpSpec("boolean", NONE, NONE, NONE, NONE, <<Plain("p"), Plain("x")>>, <<>>)}
    \cup {OpSpec("boolean", NONE, NONE, "p", NONE, <<>>, <<e>>) :
            e \in {Plain("x"), Wildcard("x"), PatternOf("x"), RangeOf("x", 0, 1)}}

Sections(names, specs, n) ==
    {s \in SeqsUpTo([name : names, spec : specs], n) :
        \A i, j \in 1..Len(s) : i # j => s[i].name # s[j].name}

Documents ==
    {d \in [parameters : Sections(ParamNames, ParamValues, 2),
            sketches   : Sections({"s"}, SketchSpecs, 1),
            parts      : Sections({"p"}, PartSpecs, 1),
            operations : Sections({"x", "y"}, OpSpecs, 2)] :
        Len(d.parameters) + Len(d.sketches) + Len(d.parts) + Len(d.operations)
            <= MaxDecls}

(***************************************************************************)
(* GraphBuilder: phase 1, nodes                                            *)
(***************************************************************************)
NodeId(kind, name) == kind \o ":" \o name

\* json.dumps(spec, sort_keys=True) is the canonical text of the mapping
\* (key order is dropped, list order is kept); the digest is taken of it.
CanonicalJson(spec) == <<"json", spec>>

HashSpec(spec) == <<"sha256/16", CanonicalJson(spec)>>

GraphNode(kind, name, spec, hashed, pattern) ==
    [node_id |-> NodeId(kind, name), node_type |-> kind, name |-> name,
     spec |-> spec, hash_value |-> HashSpec(hashed), is_pattern |-> pattern]

AddParameterNodes(parameters) ==
    [i \in 1..Len(parameters) |->
        GraphNode("parameter", parameters[i].name, [value |-> parameters[i].spec],
                  parameters[i].spec, FALSE)]

AddSketchNodes(sketches) ==
    [i \in 1..Len(sketches) |->
        GraphNode("sketch", sketches[i].name, sketches[i].spec, sketches[i].spec, FALSE)]

AddPartNodes(parts) ==
    [i \in 1..Len(parts) |->
        GraphNode("part", parts[i].name, parts[i].spec, parts[i].spec, FALSE)]

AddOperationNodes(operations) ==
    [i \in 1..Len(operations) |->
        GraphNode("operation", operations[i].name, operations[i].spec,
                  operations[i].spec,
                  operations[i].spec.type \in {"pattern", "circular", "linear", "grid"})]

AllNodes(d) ==
    AddParameterNodes(d.parameters) \o AddSketchNodes(d.sketches)
        \o AddPartNodes(d.parts) \o AddOperationNodes(d.operations)

NodeIds(ns) == {ns[i].node_id : i \in 1..Len(ns)}

(***************************************************************************)
(* GraphBuilder: phase 2, edges                                            *)
(***************************************************************************)
\* identifiers inside the ${...} of a value
FindParameterRefs(value) ==
    IF value.kind = "expr" THEN {value.l.n, value.r.n} \ {NONE} ELSE {}

ParameterNames(d) == Names(d.parameters)

ExtractParameterDependencies(d) ==
    {<<NodeId("parameter", r), NodeId("parameter", d.parameters[i].name)>> :
        <<i, r>> \in {ir \in (1..Len(d.parameters)) \X ParamNames :
            /\ ir[2] \in FindParameterRefs(d.parameters[ir[1]].spec)
            /\ ir[2] \in ParameterNames(d)
            /\ ir[2] # d.parameters[ir[1]].name}}

ExtractSketchDependencies(d) ==
    {<<NodeId("parameter", r), NodeId("sketch", d.sketches[i].name)>> :
        <<i, r>> \in {ir \in (1..Len(d.sketches)) \X ParamNames :
            /\ ir[2] \in FindParameterRefs(d.sketches[ir[1]].spec.width)
            /\ ir[2] \in ParameterNames(d)}}

ExtractPartDependencies(d) ==
    {<<NodeId("parameter", r), NodeId("part", d.parts[i].name)>> :
        <<i, r>> \in {ir \in (1..Len(d.parts)) \X ParamNames :
            /\ ir[2] \in FindParameterRefs(d.parts[ir[1]].spec.width)
            /\ ir[2] \in ParameterNames(d)}}
    \cup
    {<<NodeId("sketch", d.parts[i].spec.sketch), NodeId("part", d.parts[i].name)>> :
        i \in {j \in 1..Len(d.parts) :
            /\ d.parts[j].spec.sketch # NONE
            /\ NodeId("sketch", d.parts[j].spec.sketch) \in NodeIds(AllNodes(d))}}

\* a str entry of a list is added to the set as it is written; the wildcard
\* of base n is the text "n_*"
EntryText(e) == IF e.kind = "wildcard" THEN e.base \o "_*" ELSE e.base

IsDict(e) == e.kind \in {"pattern", "range"}

\* set.update() of a list holding a dict raises TypeError (unhashable)
Unhashable(op_spec) ==
    \/ \E i \in 1..Len(op_spec.inputs) : IsDict(op_spec.inputs[i])
    \/ \E i \in 1..Len(op_spec.subtract) : IsDict(op_spec.subtract[i])

ExtractOperationPartRefs(op_spec) ==
    (IF op_spec.input # NONE THEN {op_spec.input} ELSE {})
    \cup {EntryText(op_spec.inputs[i]) : i \in 1..Len(op_spec.inputs)}
    \cup (IF op_spec.base # NONE THEN {op_spec.base} ELSE {})
    \cup {EntryText(op_spec.subtract[i]) : i \in 1..Len(op_spec.subtract)}

ExtractOperationDependencies(d) ==
    UNION {
        {<<IF NodeId("part", r) \in NodeIds(AllNodes(d))
              THEN NodeId("part", r) ELSE NodeId("operation", r),
           NodeId("operation", d.operations[i].name)>> :
            r \in {q \in ExtractOperationPartRefs(d.operations[i].spec) :
                    \/ NodeId("part", q) \in NodeIds(AllNodes(d))
                    \/ NodeId("operation", q) \in NodeIds(AllNodes(d))}}
        : i \in 1..Len(d.operations)}

ExtractRaises(d) == \E i \in 1..Len(d.operations) : Unhashable(d.operations[i].spec)

AllEdges(d) ==
    ExtractParameterDependencies(d) \cup ExtractSketchDependencies(d)
        \cup ExtractPartDependencies(d) \cup ExtractOperationDependencies(d)

(***************************************************************************)
(* ModelGraph                                                              *)
(***************************************************************************)
Ids(ns) == [i \in 1..Len(ns) |-> ns[i].node_id]

\* successors of u in adjacency order: edges out of u are inserted while the
\* dependents are walked in node order
Successors(ids, es, u) == SelectSeq(ids, LAMBDA v : <<u, v>> \in es)

Predecessors(es, v) == {e[1] : e \in {f \in es : f[2] = v}}

InDegree(es, v) == Cardinality(Predecessors(es, v))

RECURSIVE ReachFrom(_, _, _)
ReachFrom(es, frontier, seen) ==
    LET next == {e[2] : e \in {f \in es : f[1] \in frontier}} \ seen
    IN IF next = {} THEN seen ELSE ReachFrom(es, next, seen \cup next)

\* nx.descendants / nx.ancestors
Descendants(es, u) == ReachFrom(es, {u}, {})

Ancestors(es, v) == {u \in {e[1] : e \in es} : v \in Descendants(es, u)}

GetTransitiveDependents(ids, es, u) ==
    IF u \notin Range(ids) THEN {} ELSE Descendants(es, u)

GetDependencies(ids, es, v) ==
    IF v \notin Range(ids) THEN {} ELSE Predecessors(es, v)

\* nx.simple_cycles: the elementary circuits, self-loops included
IsCycle(es, c) ==
    /\ Len(c) >= 1
    /\ NoDup(c)
    /\ \A i \in 1..Len(c) : <<c[i], c[IF i = Len(c) THEN 1 ELSE i + 1]>> \in es

DetectCycles(ids, es) ==
    LET onCycle == {u \in Range(ids) : u \in Descendants(es, u)}
    IN {c \in SeqsUpTo(onCycle, Cardinality(onCycle)) : IsCycle(es, c)}

\* nx.topological_sort: Kahn's algorithm by generations.  indeg is the
\* indegree_map, zero the zero_indegree list being collected.
RECURSIVE VisitChildrenEager(_, _, _)
VisitChildrenEager(children, indeg, zero) ==
    IF children = <<>> THEN [indeg |-> indeg, zero |-> zero]
    ELSE LET c == Head(children)
             d == indeg[c] - 1
         IN VisitChildrenEager(Tail(children), [indeg EXCEPT ![c] = d],
                               Append(zero, c))

RECURSIVE VisitChildren(_, _, _)
VisitChildren(children, indeg, zero) ==
    IF children = <<>> THEN [indeg |-> indeg, zero |-> zero]
    ELSE LET c == Head(children)
             d == indeg[c] - 1
         IN VisitChildren(Tail(children), [indeg EXCEPT ![c] = d],
                          IF d = 0 THEN Append(zero, c) ELSE zero)

RECURSIVE VisitGeneration(_, _, _, _, _)
VisitGeneration(ids, es, gen, indeg, zero) ==
    IF gen = <<>> THEN [indeg |-> indeg, zero |-> zero]
    ELSE LET r == VisitChildren(Successors(ids, es, Head(gen)), indeg, zero)
         IN VisitGeneration(ids, es, Tail(gen), r.indeg, r.zero)

RECURSIVE Generations(_, _, _, _, _)
Generations(ids, es, gen, indeg, out) ==
    IF gen = <<>> THEN out
    ELSE LET r == VisitGeneration(ids, es, gen, indeg, <<>>)
         IN Generations(ids, es, r.zero, r.indeg, out \o gen)

TopologicalSort(ids, es) ==
    Generations(ids, es,
                SelectSeq(ids, LAMBDA v : InDegree(es, v) = 0),
                [v \in Range(ids) |-> InDegree(es, v)],
                <<>>)

GetInvalidNodes(ids, valid) == {n \in Range(ids) : ~valid[n]}

(***************************************************************************)
(* ParameterResolver.  A call returns a value or raises; either way it     *)
(* leaves a cache behind.  The resolution stack is restored by the         *)
(* finally clause, so it is an argument of the calls.  deep is the largest *)
(* number of get_parameter activations that were on the call stack.        *)
(***************************************************************************)
NoError == [kind |-> NONE, name |-> NONE, expression |-> Lit(0)]

Returned(v, cache, deep) ==
    [ok |-> TRUE, val |-> v, err |-> NoError, cache |-> cache, deep |-> deep]

Raised(kind, name, expression, cache, deep) ==
    [ok |-> FALSE, val |-> 0,
     err |-> [kind |-> kind, name |-> name, expression |-> expression],
     cache |-> cache, deep |-> deep]

RawNames(raw) == [i \in 1..Len(raw) |-> raw[i].name]

RawValue(raw, n) == raw[CHOOSE i \in 1..Len(raw) : raw[i].name = n].spec

Max(x, y) == IF x >= y THEN x ELSE y

\* simple_eval of one operand: a literal, or a name looked up in names
OperandDefined(o, names) == o.n = NONE \/ o.n \in DOMAIN names

OperandValue(o, names) == IF o.n = NONE THEN o.c ELSE names[o.n]

EvalOk(v) == [ok |-> TRUE, kind |-> NONE, name |-> NONE, val |-> v]

EvalFail(kind, name) == [ok |-> FALSE, kind |-> kind, name |-> name, val |-> 0]

\* simple_eval(expression, names): left operand first, then the right one
SimpleEvalTotal(e, names) ==
    IF e.op = "syntax" THEN EvalFail("InvalidExpression", NONE)
    ELSE IF ~OperandDefined(e.l, names) THEN EvalFail("NameNotDefined", e.l.n)
    ELSE IF e.op = "id" THEN EvalOk(OperandValue(e.l, names))
    ELSE IF ~OperandDefined(e.r, names) THEN EvalFail("NameNotDefined", e.r.n)
    ELSE LET x == OperandValue(e.l, names)
             y == OperandValue(e.r, names)
         IN IF e.op = "+" THEN EvalOk(x + y)
            ELSE IF e.op = "*" THEN EvalOk(x * y)
            ELSE IF y = 0 THEN EvalOk(0)
            ELSE EvalOk(x \div y)

SimpleEval(e, names) ==
    IF e.op = "syntax" THEN EvalFail("InvalidExpression", NONE)
    ELSE IF ~OperandDefined(e.l, names) THEN EvalFail("NameNotDefined", e.l.n)
    ELSE IF e.op = "id" THEN EvalOk(OperandValue(e.l, names))
    ELSE IF ~OperandDefined(e.r, names) THEN EvalFail("NameNotDefined", e.r.n)
    ELSE LET x == OperandValue(e.l, names)
             y == OperandValue(e.r, names)
         IN IF e.op = "+" THEN EvalOk(x + y)
            ELSE IF e.op = "*" THEN EvalOk(x * y)
            ELSE IF y = 0 THEN EvalFail("ZeroDivisionError", NONE)
            ELSE EvalOk(x \div y)

\* the end of get_parameter: a resolved value is cached under the name
CachedStale(name, r) ==
    IF r.ok THEN Returned(r.val, (name :> 0) @@ r.cache, r.deep) ELSE r

Cached(name, r) ==
    IF r.ok THEN Returned(r.val, (name :> r.val) @@ r.cache, r.deep) ELSE r

RECURSIVE GetParameterUnguarded(_, _, _, _, _)
RECURSIVE GetParameter(_, _, _, _, _)
RECURSIVE BuildNamesDict(_, _, _, _, _, _, _)
RECURSIVE NamesAfter(_, _, _, _, _, _, _, _)
RECURSIVE EvaluateExpression(_, _, _, _, _)

\* _build_names_dict, from the i-th raw parameter on; names is the dict
\* collected so far.  Only a ParameterResolutionError is skipped over.
BuildNamesDict(raw, cache, stack, i, names, depth, deep) ==
    IF i > Len(raw)
    THEN [names |-> names, cache |-> cache, deep |-> deep, overflow |-> FALSE]
    ELSE LET n == raw[i].name IN
         IF n \in Range(stack)
         THEN BuildNamesDict(raw, cache, stack, i + 1, names, depth, deep)
         ELSE IF n \in DOMAIN cache
         THEN BuildNamesDict(raw, cache, stack, i + 1, (n :> cache[n]) @@ names,
                             depth, deep)
         ELSE NamesAfter(raw, stack, i, names, depth, deep, n,
                         GetParameter(raw, cache, stack, n, depth + 1))

NamesAfterSkipping(raw, stack, i, names, depth, deep, n, g) ==
    BuildNamesDict(raw, g.cache, stack, i + 1, names, depth, Max(deep, g.deep))

\* the rest of the loop of _build_names_dict once get_parameter(n) came back
\* with g
NamesAfter(raw, stack, i, names, depth, deep, n, g) ==
    IF g.ok
    THEN BuildNamesDict(raw, g.cache, stack, i + 1, (n :> g.val) @@ names,
                        depth, Max(deep, g.deep))
    ELSE IF g.err.kind = "RecursionError"
    THEN [names |-> names, cache |-> g.cache, deep |-> Max(deep, g.deep),
          overflow |-> TRUE]
    ELSE BuildNamesDict(raw, g.cache, stack, i + 1, names, depth, Max(deep, g.deep))

\* _evaluate_expression: every failure leaves as a ParameterResolutionError
\* that carries the expression
Evaluated(e, b, r) ==
    IF b.overflow THEN Raised("EvalError", NONE, e, b.cache, b.deep)
    ELSE IF r.ok THEN Returned(r.val, b.cache, b.deep)
    ELSE Raised(r.kind, r.name, e, b.cache, b.deep)

EvaluateWith(e, b) == Evaluated(e, b, SimpleEval(e, b.names))

EvaluateExpression(raw, cache, stack, e, depth) ==
    EvaluateWith(e, BuildNamesDict(raw, cache, stack, 1, <<>>, depth, depth))

\* resolve: numbers pass through, a "${...}" string is evaluated
Resolve(raw, cache, stack, value, depth) ==
    IF value.kind = "lit" THEN Returned(value.v, cache, depth)
    ELSE EvaluateExpression(raw, cache, stack, value, depth)

GetParameterUnguarded(raw, cache, stack, name, depth) ==
    IF depth > RecursionLimit THEN Raised("RecursionError", NONE, Lit(0), cache, depth)
    ELSE IF name \in DOMAIN cache THEN Returned(cache[name], cache, depth)
    ELSE IF name \notin Range(RawNames(raw))
    THEN Raised("ParameterNotFound", name, Lit(0), cache, depth)
    ELSE Cached(name, Resolve(raw, cache, stack, RawValue(raw, name), depth))

\* get_parameter; depth counts the activations of get_parameter, this one
\* included
GetParameter(raw, cache, stack, name, depth) ==
    IF depth > RecursionLimit THEN Raised("RecursionError", NONE, Lit(0), cache, depth)
    ELSE IF name \in DOMAIN cache THEN Returned(cache[name], cache, depth)
    ELSE IF name \notin Range(RawNames(raw))
    THEN Raised("ParameterNotFound", name, Lit(0), cache, depth)
    ELSE IF name \in Range(stack)
    THEN Raised("CircularReference", name, Lit(0), cache, depth)
    ELSE Cached(name, Resolve(raw, cache, Append(stack, name),
                              RawValue(raw, name), depth))

\* resolve_all: get_parameter of every raw parameter in turn; the first
\* failure leaves
RECURSIVE ResolveAll(_, _, _, _)
RECURSIVE ResolveRest(_, _, _, _)
ResolveAll(raw, cache, i, result) ==
    IF i > Len(raw) THEN Returned(result, cache, 0)
    ELSE ResolveRest(raw, i, result, GetParameter(raw, cache, <<>>, raw[i].name, 1))

ResolveRest(raw, i, result, g) ==
    IF g.ok THEN ResolveAll(raw, g.cache, i + 1, (raw[i].name :> g.val) @@ result)
    ELSE g

\* resolution_stack.pop()
Pop(stack) == SubSeq(stack, 1, Len(stack) - 1)

RECURSIVE StackAfterGetParameter(_, _, _, _, _)
RECURSIVE StackAfterNames(_, _, _, _, _)

\* resolution_stack when resolve(value) is left: the stack the calls of
\* _build_names_dict leave one after the other
StackAfterResolve(raw, cache, stack, value, depth) ==
    IF value.kind = "lit" THEN stack ELSE StackAfterNames(raw, cache, stack, 1, depth)

\* the stack once get_parameter(n) of the loop came back with g and left the
\* stack s; a RecursionError leaves the loop
StackAfterNested(raw, i, depth, g, s) ==
    IF ~g.ok /\ g.err.kind = "RecursionError" THEN s
    ELSE StackAfterNames(raw, g.cache, s, i + 1, depth)

StackAfterNames(raw, cache, stack, i, depth) ==
    IF i > Len(raw) THEN stack
    ELSE IF raw[i].name \in Range(stack) \/ raw[i].name \in DOMAIN cache
    THEN StackAfterNames(raw, cache, stack, i + 1, depth)
    ELSE StackAfterNested(raw, i, depth,
                          GetParameter(raw, cache, stack, raw[i].name, depth + 1),
                          StackAfterGetParameter(raw, cache, stack, raw[i].name, depth + 1))

\* the stack when resolve came back with g and left the stack s, were the
\* pop at the end of the try block
PoppedOnReturn(g, s) == IF g.ok THEN Pop(s) ELSE s

StackAfterGetParameterNoFinally(raw, cache, stack, name, depth) ==
    IF depth > RecursionLimit THEN stack
    ELSE IF name \in DOMAIN cache THEN stack
    ELSE IF name \notin Range(RawNames(raw)) THEN stack
    ELSE IF name \in Range(stack) THEN stack
    ELSE PoppedOnReturn(GetParameter(raw, cache, stack, name, depth),
                        StackAfterResolve(raw, cache, Append(stack, name),
                                          RawValue(raw, name), depth))

\* resolution_stack when get_parameter(name) is left: nothing is pushed
\* before the three early exits; after the push, finally pops whatever
\* resolve did
StackAfterGetParameter(raw, cache, stack, name, depth) ==
    IF depth > RecursionLimit THEN stack
    ELSE IF name \in DOMAIN cache THEN stack
    ELSE IF name \notin Range(RawNames(raw)) THEN stack
    ELSE IF name \in Range(stack) THEN stack
    ELSE Pop(StackAfterResolve(raw, cache, Append(stack, name),
                               RawValue(raw, name), depth))

RECURSIVE StackAfterResolveAll(_, _, _, _)
StackAfterRest(raw, i, g, s) ==
    IF g.ok THEN StackAfterResolveAll(raw, g.cache, s, i + 1) ELSE s

\* resolution_stack when resolve_all() is left
StackAfterResolveAll(raw, cache, stack, i) ==
    IF i > Len(raw) THEN stack
    ELSE StackAfterRest(raw, i, GetParameter(raw, cache, stack, raw[i].name, 1),
                        StackAfterGetParameter(raw, cache, stack, raw[i].name, 1))

(***************************************************************************)
(* Part and PartRegistry.  Parts are objects: the registry and the clones  *)
(* hold references (object ids) into heap, and a metadata value that is a  *)
(* list (finishing_ops) is a reference into lists.                         *)
(***************************************************************************)
Str(x) == [kind |-> "str", s |-> x, id |-> 0]

ListRef(i) == [kind |-> "list", s |-> NONE, id |-> i]

Part(name, geometry, metadata, history, position) ==
    [name |-> name, geometry |-> geometry, metadata |-> metadata,
     transform_history |-> history, current_position |-> position]

\* PartRegistry.exists / get / list_parts
RegistryExists(reg, name) == \E i \in 1..Len(reg) : reg[i].name = name

RegistryGet(reg, name) == reg[CHOOSE i \in 1..Len(reg) : reg[i].name = name].ref

ListParts(reg) == [i \in 1..Len(reg) |-> reg[i].name]

RegistryAddOverwrite(reg, name, ref) ==
    IF RegistryExists(reg, name)
    THEN [ok |-> TRUE, error |-> NONE,
          reg |-> [i \in 1..Len(reg) |->
                     IF reg[i].name = name THEN [name |-> name, ref |-> ref] ELSE reg[i]]]
    ELSE [ok |-> TRUE, error |-> NONE, reg |-> Append(reg, [name |-> name, ref |-> ref])]

\* PartRegistry.add(part), part being the object ref named name
RegistryAdd(reg, name, ref) ==
    IF RegistryExists(reg, name)
    THEN [ok |-> FALSE, error |-> "ValueError", reg |-> reg]
    ELSE [ok |-> TRUE, error |-> NONE, reg |-> Append(reg, [name |-> name, ref |-> ref])]

\* Part.clone(new_name): the geometry handle is shared, metadata.copy() and
\* transform_history.copy() are shallow, so a list inside the metadata is the
\* same object in both parts
Clone(part, new_name) ==
    Part(new_name, part.geometry, part.metadata, part.transform_history,
         part.current_position)

\* the finishing_ops of a part, read through its metadata
FinishingOps(h, ls, ref) ==
    IF "finishing_ops" \in DOMAIN h[ref].metadata
    THEN ls[h[ref].metadata["finishing_ops"].id]
    ELSE <<>>

\* FinishingBuilder.execute_finishing_operation on the part object ref: the
\* geometry is replaced on the same Part and a record is appended to the
\* finishing_ops list of its metadata (the list is created when absent)
ApplyFinishing(h, ls, ref, finish) ==
    LET part == h[ref]
        has  == "finishing_ops" \in DOMAIN part.metadata
        lid  == IF has THEN part.metadata["finishing_ops"].id ELSE Len(ls) + 1
        ls1  == IF has THEN ls ELSE Append(ls, <<>>)
        md   == IF has THEN part.metadata
                ELSE ("finishing_ops" :> ListRef(lid)) @@ part.metadata
    IN [heap |-> [h EXCEPT ![ref] = [part EXCEPT !.geometry = Append(@, finish),
                                                  !.metadata = md]],
        lists |-> [ls1 EXCEPT ![lid] = Append(@, finish)]]

(***************************************************************************)
(* metadata_utils                                                          *)
(***************************************************************************)
PROPAGATING_METADATA == {"color", "material", "transparency", "texture", "finish"}

\* copy_propagating_metadata(source_metadata, target_metadata)
CopyPropagatingMetadata(source, target) ==
    LET copied == PROPAGATING_METADATA \cap DOMAIN source
    IN [k \in DOMAIN target \cup copied |->
            IF k \in copied THEN source[k] ELSE target[k]]

OPERATION_SPECIFIC_METADATA ==
    {"primitive_type", "source", "operation_type", "boolean_op", "pattern_type",
     "pattern_index", "grid_position", "angle"}

\* the dict objects of a call: NoDict is None, any other reference is the
\* index of a dict among the objects h
NoDict == 0

Truthy(h, ref) == ref # NoDict /\ h[ref] # <<>>

\* result.update(entries) / result[key] = value on the dict object ref
DictUpdate(h, ref, entries) == [h EXCEPT ![ref] = entries @@ @]

CopyPropagatingAliased(h, source_metadata, target_metadata, overrides) ==
    LET result == target_metadata
        h2 == IF Truthy(h, source_metadata)
              THEN DictUpdate(h, result,
                       [k \in PROPAGATING_METADATA \cap DOMAIN h[source_metadata] |->
                            h[source_metadata][k]])
              ELSE h
        h3 == IF Truthy(h, overrides) THEN DictUpdate(h2, result, h[overrides]) ELSE h2
    IN [heap |-> h3, result |-> result]

\* copy_propagating_metadata(source_metadata, target_metadata, overrides) on
\* dict objects: result = dict(target_metadata) is a new object, then the
\* propagating keys of the source and the overrides are written into it
CopyPropagatingObjects(h, source_metadata, target_metadata, overrides) ==
    LET result == Len(h) + 1
        h1 == Append(h, h[target_metadata])
        h2 == IF Truthy(h, source_metadata)
              THEN DictUpdate(h1, result,
                       [k \in PROPAGATING_METADATA \cap DOMAIN h[source_metadata] |->
                            h[source_metadata][k]])
              ELSE h1
        h3 == IF Truthy(h, overrides) THEN DictUpdate(h2, result, h[overrides]) ELSE h2
    IN [heap |-> h3, result |-> result]

(***************************************************************************)
(* The build store: what the builders of one build read and write.         *)
(***************************************************************************)
Store(reg, h, ls, sk, cache, out) ==
    [registry |-> reg, heap |-> h, lists |-> ls, sketches |-> sk,
     cache |-> cache, out |-> out, ok |-> TRUE, error |-> NONE]

Fail(st, kind) == [st EXCEPT !.ok = FALSE, !.error = kind]

Wrote(st, id, v) == [st EXCEPT !.out = (id :> v) @@ @]

PartOf(st, name) == st.heap[RegistryGet(st.registry, name)]

NewPartUnregistered(st, name, geometry, metadata) ==
    [st EXCEPT !.heap = Append(@, Part(name, geometry, metadata, <<>>, <<0, 0, 0>>))]

\* registry.add(Part(name, geometry, metadata))
NewPart(st, name, geometry, metadata) ==
    LET ref == Len(st.heap) + 1
        r == RegistryAdd(st.registry, name, ref)
    IN IF r.ok
       THEN [st EXCEPT !.heap = Append(@, Part(name, geometry, metadata, <<>>, <<0, 0, 0>>)),
                       !.registry = r.reg]
       ELSE Fail(st, r.error)

(***************************************************************************)
(* BooleanBuilder                                                          *)
(***************************************************************************)
StartsWith(text, prefix) ==
    Len(text) >= Len(prefix) /\ SubSeq(text, 1, Len(prefix)) = prefix

\* the names a pattern of count copies are written under
PatternCount == 2

IndexedName(base, i) == base \o "_" \o ToString(i)

\* int(suffix) of a name that starts with prefix; -1 when it is no number
SuffixNumber(name, prefix) ==
    IF \E i \in 0..9 : name = prefix \o ToString(i)
    THEN CHOOSE i \in 0..9 : name = prefix \o ToString(i)
    ELSE -1

RECURSIVE SortBySuffix(_, _)
SortBySuffix(names, prefix) ==
    IF names = {} THEN <<>>
    ELSE LET numeric == {n \in names : SuffixNumber(n, prefix) >= 0}
             first == IF numeric # {}
                      THEN CHOOSE n \in numeric : \A m \in numeric :
                              SuffixNumber(n, prefix) <= SuffixNumber(m, prefix)
                      ELSE CHOOSE n \in names : TRUE
         IN <<first>> \o SortBySuffix(names \ {first}, prefix)

\* _find_pattern_matches(prefix)
FindPatternMatches(reg, prefix) ==
    SortBySuffix({n \in Range(ListParts(reg)) : StartsWith(n, prefix)}, prefix)

RECURSIVE RemoveStars(_)
\* item.replace('*', '')
RemoveStars(text) ==
    IF Len(text) = 0 THEN text
    ELSE IF SubSeq(text, 1, 1) = "*" THEN RemoveStars(SubSeq(text, 2, Len(text)))
    ELSE SubSeq(text, 1, 1) \o RemoveStars(SubSeq(text, 2, Len(text)))

\* '*' in item
HasStar(text) == \E i \in 1..Len(text) : SubSeq(text, i, i) = "*"

\* the message of a BooleanBuilderError: what it reports, and the
\* "Available parts: ..." list when the message ends with one
NoMessage == [kind |-> NONE, lists_parts |-> FALSE, available |-> <<>>]

Listing(kind, reg) == [kind |-> kind, lists_parts |-> TRUE, available |-> ListParts(reg)]

Plainly(kind) == [kind |-> kind, lists_parts |-> FALSE, available |-> <<>>]

Expanded(names) == [ok |-> TRUE, names |-> names, message |-> NoMessage]

NotExpanded(message) == [ok |-> FALSE, names |-> <<>>, message |-> message]

\* "if not matches: raise ... matched no parts. Available parts: ..."
Matched(reg, matches, kind) ==
    IF matches = <<>> THEN NotExpanded(Listing(kind, reg)) ELSE Expanded(matches)

\* _expand_range_spec("base[lo..hi]"), and "base[*]" written with lo < 0
ExpandRangeSpec(reg, e) ==
    IF e.lo < 0
    THEN Matched(reg, FindPatternMatches(reg, e.base \o "_"), "RangeNoMatch")
    ELSE IF e.lo > e.hi THEN NotExpanded(Plainly("InvalidRange"))
    ELSE IF \E i \in e.lo..e.hi : ~RegistryExists(reg, IndexedName(e.base, i))
    THEN NotExpanded(Listing("RangeMissingPart", reg))
    ELSE Expanded([k \in 1..(e.hi - e.lo + 1) |-> IndexedName(e.base, e.lo + k - 1)])

\* one item of the loop of _expand_part_list
ExpandItem(reg, e) ==
    IF e.kind \in {"name", "wildcard"}
    THEN IF HasStar(EntryText(e))
         THEN Matched(reg, FindPatternMatches(reg, RemoveStars(EntryText(e))),
                      "PatternNoMatch")
         ELSE Expanded(<<EntryText(e)>>)
    ELSE IF e.kind = "pattern"
    THEN Matched(reg, FindPatternMatches(reg, e.base \o "_"), "PatternNoMatch")
    ELSE ExpandRangeSpec(reg, e)

Joined(one, rest) ==
    IF ~one.ok THEN one
    ELSE IF ~rest.ok THEN rest
    ELSE Expanded(one.names \o rest.names)

\* _expand_part_list: the first entry that cannot be expanded raises
RECURSIVE ExpandPartList(_, _)
ExpandPartList(reg, part_list) ==
    IF part_list = <<>> THEN Expanded(<<>>)
    ELSE Joined(ExpandItem(reg, Head(part_list)), ExpandPartList(reg, Tail(part_list)))

RECURSIVE Fold(_, _, _, _)
Fold(st, names, i, geometry) ==
    IF i > Len(names) THEN geometry
    ELSE Fold(st, names, i + 1, geometry \o PartOf(st, names[i]).geometry)

Built(geometry) == [ok |-> TRUE, geometry |-> geometry, message |-> NoMessage]

NotBuilt(message) == [ok |-> FALSE, geometry |-> <<>>, message |-> message]

CombinedUncounted(st, x, op) ==
    IF ~x.ok THEN NotBuilt(x.message)
    ELSE IF Len(x.names) < 1 THEN NotBuilt(Plainly("TooFewInputs"))
    ELSE IF \E i \in 1..Len(x.names) : ~RegistryExists(st.registry, x.names[i])
    THEN NotBuilt(Listing("InputNotFound", st.registry))
    ELSE Built(Fold(st, x.names, 1, <<op>>))

\* _execute_union and _execute_intersection after the expansion x of inputs
Combined(st, x, op) ==
    IF ~x.ok THEN NotBuilt(x.message)
    ELSE IF Len(x.names) < 2 THEN NotBuilt(Plainly("TooFewInputs"))
    ELSE IF \E i \in 1..Len(x.names) : ~RegistryExists(st.registry, x.names[i])
    THEN NotBuilt(Listing("InputNotFound", st.registry))
    ELSE Built(Fold(st, x.names, 1, <<op>>))

\* _execute_union: geometry of the fold, or the failure
ExecuteUnion(st, spec) ==
    Combined(st, ExpandPartList(st.registry, spec.inputs), "union")

\* _execute_intersection
ExecuteIntersection(st, spec) ==
    Combined(st, ExpandPartList(st.registry, spec.inputs), "intersection")

\* _execute_difference after the expansion x of subtract
Cut(st, spec, x) ==
    IF spec.base = NONE THEN NotBuilt(Plainly("MissingBase"))
    ELSE IF ~x.ok THEN NotBuilt(x.message)
    ELSE IF Len(x.names) = 0 THEN NotBuilt(Plainly("EmptySubtract"))
    ELSE IF ~RegistryExists(st.registry, spec.base)
    THEN NotBuilt(Listing("BaseNotFound", st.registry))
    ELSE IF \E i \in 1..Len(x.names) : ~RegistryExists(st.registry, x.names[i])
    THEN NotBuilt(Listing("SubtractNotFound", st.registry))
    ELSE Built(Fold(st, x.names, 1, PartOf(st, spec.base).geometry \o <<"cut">>))

\* _execute_difference
ExecuteDifference(st, spec) ==
    Cut(st, spec, ExpandPartList(st.registry, spec.subtract))

\* the 'operation' field; the documents write union with inputs and
\* difference with base and subtract
Operation(spec) ==
    IF "operation" \in DOMAIN spec THEN spec.operation
    ELSE IF spec.base = NONE THEN "union" ELSE "difference"

SourceMetadataOfFirst(st, spec) ==
    IF Operation(spec) = "difference"
    THEN IF spec.base # NONE /\ RegistryExists(st.registry, spec.base)
         THEN PartOf(st, spec.base).metadata ELSE <<>>
    ELSE IF /\ spec.inputs # <<>>
            /\ spec.inputs[1].kind \in {"name", "wildcard"}
            /\ ~HasStar(EntryText(spec.inputs[1]))
            /\ RegistryExists(st.registry, spec.inputs[1].base)
         THEN PartOf(st, spec.inputs[1].base).metadata ELSE <<>>

\* the part whose appearance metadata the result inherits: the part under
\* the 'base' key for difference and intersection, the first input of a
\* union when it is a string without '*'
SourceMetadata(st, spec) ==
    IF Operation(spec) \in {"difference", "intersection"}
    THEN IF spec.base # NONE /\ RegistryExists(st.registry, spec.base)
         THEN PartOf(st, spec.base).metadata ELSE <<>>
    ELSE IF /\ spec.inputs # <<>>
            /\ spec.inputs[1].kind \in {"name", "wildcard"}
            /\ ~HasStar(EntryText(spec.inputs[1]))
            /\ RegistryExists(st.registry, spec.inputs[1].base)
         THEN PartOf(st, spec.inputs[1].base).metadata ELSE <<>>

BooleanAdded(st, added, name, geometry) ==
    IF ~added.ok THEN Fail(st, "BooleanBuilderError")
    ELSE Wrote(added, NodeId("operation", name), <<<<name, geometry>>>>)

BooleanResultInPlace(st, name, spec, g) ==
    IF ~g.ok THEN Fail(st, "BooleanBuilderError")
    ELSE BooleanAdded(st,
             NewPart([st EXCEPT !.heap[1].geometry = g.geometry], name, g.geometry,
                     CopyPropagatingMetadata(SourceMetadata(st, spec),
                         ("operation_type" :> Str("boolean")) @@
                         ("boolean_op" :> Str(Operation(spec))))),
             name, g.geometry)

\* the tail of execute_boolean_operation, g being the geometry or the failure
BooleanResult(st, name, spec, g) ==
    IF ~g.ok THEN Fail(st, "BooleanBuilderError")
    ELSE BooleanAdded(st,
             NewPart(st, name, g.geometry,
                     CopyPropagatingMetadata(SourceMetadata(st, spec),
                         ("operation_type" :> Str("boolean")) @@
                         ("boolean_op" :> Str(Operation(spec))))),
             name, g.geometry)

\* the dispatch on 'operation' of execute_boolean_operation
BooleanGeometry(st, spec) ==
    IF Operation(spec) = "union" THEN ExecuteUnion(st, spec)
    ELSE IF Operation(spec) = "difference" THEN ExecuteDifference(st, spec)
    ELSE IF Operation(spec) = "intersection" THEN ExecuteIntersection(st, spec)
    ELSE NotBuilt(Plainly("UnknownOperation"))

\* the message of the error execute_boolean_operation raises, g being the
\* geometry or the failure; registry.add raises on a registered name
BooleanRaised(st, name, g) ==
    IF ~g.ok THEN g.message
    ELSE IF RegistryExists(st.registry, name) THEN Plainly("ValueError")
    ELSE NoMessage

BooleanMessage(st, name, spec) == BooleanRaised(st, name, BooleanGeometry(st, spec))

\* execute_boolean_operation(name, spec)
ExecuteBooleanOperation(st, name, spec) ==
    BooleanResult(st, name, spec, BooleanGeometry(st, spec))

(***************************************************************************)
(* The other builders and the orchestrator's dispatch.  A geometry is the  *)
(* sequence of the constructions that made it.                             *)
(***************************************************************************)
Solid(primitive, size) == <<primitive \o "(" \o ToString(size) \o ")">>

\* Parameter node: evaluate through the resolver, cache the result
ParameterBuilt(st, name, g) ==
    IF ~g.ok THEN Fail([st EXCEPT !.cache = g.cache], "ParameterResolutionError")
    ELSE Wrote([st EXCEPT !.cache = g.cache], NodeId("parameter", name),
               <<<<name, <<ToString(g.val)>>>>>>)

BuildParameter(st, raw, name) ==
    ParameterBuilt(st, name, GetParameter(raw, st.cache, <<>>, name, 1))

\* Sketch node: resolve the spec, store the sketch by name
SketchBuilt(st, name, r) ==
    IF ~r.ok THEN Fail([st EXCEPT !.cache = r.cache], "ParameterResolutionError")
    ELSE Wrote([st EXCEPT !.cache = r.cache, !.sketches = (name :> r.val) @@ @],
               NodeId("sketch", name), <<<<name, <<ToString(r.val)>>>>>>)

BuildSketch(st, raw, name, spec) ==
    SketchBuilt(st, name, Resolve(raw, st.cache, <<>>, spec.width, 0))

\* extrusion of a stored sketch into a part called name
\* the new part is registered and noted as what the node wrote
Registered(added, id, name, geometry) ==
    IF ~added.ok THEN added ELSE Wrote(added, id, <<<<name, geometry>>>>)

Produce(st, id, name, geometry, metadata) ==
    Registered(NewPart(st, name, geometry, metadata), id, name, geometry)

BuildExtrude(st, kind, name, sketch) ==
    IF sketch \notin DOMAIN st.sketches THEN Fail(st, "ExtrudeBuilderError")
    ELSE Produce(st, NodeId(kind, name), name,
                 Solid("extrude", st.sketches[sketch]),
                 "operation_type" :> Str("extrude"))

\* Part node: a primitive with resolved dimensions, or an extrusion
PrimitiveBuilt(st, name, spec, r) ==
    IF ~r.ok THEN Fail([st EXCEPT !.cache = r.cache], "ParameterResolutionError")
    ELSE Produce([st EXCEPT !.cache = r.cache], NodeId("part", name), name,
                 Solid(spec.primitive, r.val),
                 "primitive_type" :> Str(spec.primitive))

BuildPart(st, raw, name, spec) ==
    IF spec.primitive = "extrude" THEN BuildExtrude(st, "part", name, spec.sketch)
    ELSE PrimitiveBuilt(st, name, spec, Resolve(raw, st.cache, <<>>, spec.width, 0))

\* transform: a new part called name, made from the input's geometry
BuildTransform(st, name, spec) ==
    IF ~RegistryExists(st.registry, spec.input) THEN Fail(st, "OperationsBuilderError")
    ELSE Produce(st, NodeId("operation", name), name,
                 Append(PartOf(st, spec.input).geometry, "transform"),
                 CopyPropagatingMetadata(PartOf(st, spec.input).metadata,
                                         "operation_type" :> Str("transform")))

\* pattern: PatternCount parts name_0, name_1, ... made from the input
RECURSIVE BuildPattern(_, _, _, _, _)
RECURSIVE PatternNext(_, _, _, _, _)
BuildPattern(st, name, spec, i, written) ==
    IF ~RegistryExists(st.registry, spec.input) THEN Fail(st, "PatternBuilderError")
    ELSE IF i >= PatternCount
    THEN Wrote(st, NodeId("operation", name), written)
    ELSE PatternNext(NewPart(st, IndexedName(name, i),
                             Append(PartOf(st, spec.input).geometry,
                                    "copy" \o ToString(i)),
                             CopyPropagatingMetadata(PartOf(st, spec.input).metadata,
                                 "pattern_index" :> Str(ToString(i)))),
                     name, spec, i, written)

PatternNext(added, name, spec, i, written) ==
    IF ~added.ok THEN added
    ELSE BuildPattern(added, name, spec, i + 1,
                      Append(written, <<IndexedName(name, i),
                                        PartOf(added, IndexedName(name, i)).geometry>>))

\* finishing: the input part is changed in place, nothing is registered
BuildFinishing(st, name, spec) ==
    IF ~RegistryExists(st.registry, spec.input) THEN Fail(st, "FinishingBuilderError")
    ELSE LET ref == RegistryGet(st.registry, spec.input)
             f == ApplyFinishing(st.heap, st.lists, ref, spec.finish)
         IN Wrote([st EXCEPT !.heap = f.heap, !.lists = f.lists],
                  NodeId("operation", name),
                  <<<<spec.input, f.heap[ref].geometry>>>>)

\* the builder keyed by the node's kind and the spec's type
Execute(st, raw, node) ==
    IF node.node_type = "parameter" THEN BuildParameter(st, raw, node.name)
    ELSE IF node.node_type = "sketch" THEN BuildSketch(st, raw, node.name, node.spec)
    ELSE IF node.node_type = "part" THEN BuildPart(st, raw, node.name, node.spec)
    ELSE IF node.spec.type = "transform" THEN BuildTransform(st, node.name, node.spec)
    ELSE IF node.spec.type = "pattern" THEN BuildPattern(st, node.name, node.spec, 0, <<>>)
    ELSE IF node.spec.type = "finishing" THEN BuildFinishing(st, node.name, node.spec)
    ELSE IF node.spec.type = "extrude"
    THEN BuildExtrude(st, "operation", node.name, node.spec.sketch)
    ELSE ExecuteBooleanOperation(st, node.name, node.spec)

NodeOf(ns, id) == ns[CHOOSE i \in 1..Len(ns) : ns[i].node_id = id]

\* a node may be dispatched once all its direct predecessors have been
Ready(es, done, id) ==
    id \notin Range(done) /\ Predecessors(es, id) \subseteq Range(done)

\* the build that dispatches the nodes one after the other in the given
\* order and stops at the first failure
RECURSIVE BuildAlong(_, _, _, _, _)
BuildAlong(st, raw, ns, ord, i) ==
    IF i > Len(ord) \/ ~st.ok THEN st
    ELSE BuildAlong(Execute(st, raw, NodeOf(ns, ord[i])), raw, ns, ord, i + 1)

\* a metadata mapping with its lists spelled out
MetadataValue(ls, metadata) ==
    [k \in DOMAIN metadata |->
        IF metadata[k].kind = "list" THEN ls[metadata[k].id] ELSE <<metadata[k].s>>]

\* what a build hands back: the parts by name, or the failure
Contents(st) ==
    IF ~st.ok THEN {<<"error">>}
    ELSE {<<st.registry[i].name,
            st.heap[st.registry[i].ref].geometry,
            MetadataValue(st.lists, st.heap[st.registry[i].ref].metadata)>> :
            i \in 1..Len(st.registry)}

(***************************************************************************)
(* Actions of the graph                                                    *)
(***************************************************************************)
NoCall == [op |-> "none", arg |-> NONE]

EmptyDocument ==
    [parameters |-> <<>>, sketches |-> <<>>, parts |-> <<>>, operations |-> <<>>]

NoResult == [op |-> "none", arg |-> NONE, ok |-> TRUE, error |-> NONE]

NoSnapshot == [hash |-> <<>>, out |-> <<>>, order |-> <<>>]

\* a GraphBuilder with a document to build
InitGraph ==
    /\ doc \in Documents
    /\ gstate = "loaded" /\ error = NONE /\ nodes = <<>> /\ edges = {}
    /\ cycle = <<>> /\ order = <<>> /\ is_valid = <<>> /\ valid_nodes = {}
    /\ lastCall = NoCall
    /\ raw_parameters = <<>> /\ resolved_cache = <<>> /\ resolution_stack = <<>>
    /\ rlast = [op |-> "none", arg |-> NONE, before |-> <<>>, out |-> Returned(0, <<>>, 0)]
    /\ registry = <<>> /\ heap = <<>> /\ lists = <<>> /\ plast = NoResult
    /\ bstate = "idle" /\ dispatched = <<>> /\ sketch_table = <<>> /\ outputs = <<>>
    /\ previous = NoSnapshot
    /\ tracker = NoTracker /\ tlast = NoTransformCall
    /\ shape = NoShape /\ slast = NoSelection

\* GraphBuilder.build_graph: returns the graph, or raises
BuildGraph ==
    /\ gstate = "loaded"
    /\ lastCall' = [op |-> "build_graph", arg |-> NONE]
    /\ order' = <<>>
    /\ UNCHANGED <<doc, rvars, pvars, bvars, xvars>>
    /\ IF ExtractRaises(doc)
       THEN /\ gstate' = "failed"
            /\ error' = "TypeError"
            /\ UNCHANGED <<nodes, edges, cycle, is_valid, valid_nodes>>
       ELSE LET ns == AllNodes(doc)
                es == AllEdges(doc)
                cs == DetectCycles(Ids(ns), es)
            IN IF cs # {}
               THEN /\ gstate' = "failed"
                    /\ error' = "CircularDependency"
                    /\ \E c \in cs : cycle' = c
                    /\ UNCHANGED <<nodes, edges, is_valid, valid_nodes>>
               ELSE /\ gstate' = "built"
                    /\ error' = NONE
                    /\ nodes' = ns
                    /\ edges' = es
                    /\ is_valid' = [n \in NodeIds(ns) |-> TRUE]
                    /\ valid_nodes' = NodeIds(ns)
                    /\ UNCHANGED cycle

\* ModelGraph.topological_sort()
SortGraph ==
    /\ gstate = "built"
    /\ order' = TopologicalSort(Ids(nodes), edges)
    /\ lastCall' = [op |-> "topological_sort", arg |-> NONE]
    /\ UNCHANGED <<doc, gstate, error, nodes, edges, cycle, is_valid, valid_nodes>>
    /\ UNCHANGED <<rvars, pvars, bvars, xvars>>

Marks == Cardinality({n \in NodeIds(nodes) : ~is_valid[n]})

MarkInvalidCascade(n) ==
    /\ gstate = "built"
    /\ Marks < MaxMarks
    /\ lastCall' = [op |-> "mark_invalid", arg |-> n]
    /\ is_valid' = [m \in DOMAIN is_valid |->
                        IF m \in {n} \cup Descendants(edges, n) THEN FALSE ELSE is_valid[m]]
    /\ valid_nodes' = valid_nodes \ ({n} \cup Descendants(edges, n))
    /\ UNCHANGED <<doc, gstate, error, nodes, edges, cycle, order, rvars, pvars, bvars, xvars>>

\* ModelGraph.mark_invalid(node_id)
MarkInvalid(n) ==
    /\ gstate = "built"
    /\ Marks < MaxMarks
    /\ lastCall' = [op |-> "mark_invalid", arg |-> n]
    /\ IF n \in NodeIds(nodes)
       THEN /\ is_valid' = [is_valid EXCEPT ![n] = FALSE]
            /\ valid_nodes' = valid_nodes \ {n}
       ELSE UNCHANGED <<is_valid, valid_nodes>>
    /\ UNCHANGED <<doc, gstate, error, nodes, edges, cycle, order, rvars, pvars, bvars, xvars>>

\* ModelGraph.mark_valid(node_id)
MarkValid(n) ==
    /\ gstate = "built"
    /\ lastCall' = [op |-> "mark_valid", arg |-> n]
    /\ IF n \in NodeIds(nodes)
       THEN /\ is_valid' = [is_valid EXCEPT ![n] = TRUE]
            /\ valid_nodes' = valid_nodes \cup {n}
       ELSE UNCHANGED <<is_valid, valid_nodes>>
    /\ UNCHANGED <<doc, gstate, error, nodes, edges, cycle, order, rvars, pvars, bvars, xvars>>

NextGraph ==
    \/ BuildGraph
    \/ SortGraph
    \/ \E n \in NodeIds(nodes) : MarkInvalid(n)
    \/ \E n \in NodeIds(nodes) : MarkValid(n)



(***************************************************************************)
(* Actions of the resolver                                                 *)
(***************************************************************************)
ResolverNames == {<<"a", "b", "c", "d">>[i] : i \in 1..MaxParams}

RawValues ==
    {Lit(10)} \cup {RefTo(n) : n \in ResolverNames}
    \cup {Expr("*", Name("a"), Const(2)), Expr("+", Name("b"), Name("a")),
          Expr("/", Name("a"), Const(0)), Expr("syntax", Const(0), Const(0))}

\* the maps of the resolver's own tests: a chain and a cycle of three
ScenarioMaps ==
    {<<[name |-> "a", spec |-> Lit(10)],
       [name |-> "b", spec |-> Expr("*", Name("a"), Const(2))],
       [name |-> "c", spec |-> Expr("+", Name("b"), Name("a"))]>>,
     <<[name |-> "a", spec |-> RefTo("b")],
       [name |-> "b", spec |-> RefTo("c")],
       [name |-> "c", spec |-> RefTo("a")]>>}

RawParameterMaps == Sections(ResolverNames, RawValues, MaxParams) \cup ScenarioMaps

NoResolverCall == [op |-> "none", arg |-> NONE, before |-> <<>>, out |-> Returned(0, <<>>, 0)]

\* a ParameterResolver constructed over a raw parameter map
InitResolver ==
    /\ raw_parameters \in RawParameterMaps
    /\ resolved_cache = <<>> /\ resolution_stack = <<>> /\ rlast = NoResolverCall
    /\ doc = EmptyDocument
    /\ gstate = "loaded" /\ error = NONE /\ nodes = <<>> /\ edges = {}
    /\ cycle = <<>> /\ order = <<>> /\ is_valid = <<>> /\ valid_nodes = {}
    /\ lastCall = NoCall
    /\ registry = <<>> /\ heap = <<>> /\ lists = <<>> /\ plast = NoResult
    /\ bstate = "idle" /\ dispatched = <<>> /\ sketch_table = <<>> /\ outputs = <<>>
    /\ previous = NoSnapshot
    /\ tracker = NoTracker /\ tlast = NoTransformCall
    /\ shape = NoShape /\ slast = NoSelection

\* what a call leaves: the cache and the stack, and the record of the call
ResolverCalled(op, arg, g, stack) ==
    /\ resolved_cache' = g.cache
    /\ resolution_stack' = stack
    /\ rlast' = [op |-> op, arg |-> arg, before |-> resolved_cache,
                 out |-> [g EXCEPT !.cache = <<>>]]
    /\ UNCHANGED <<raw_parameters, gvars, pvars, bvars, xvars>>

\* resolver.get_parameter(name), called by a client
CallGetParameter(name) ==
    ResolverCalled("get_parameter", name,
        GetParameter(raw_parameters, resolved_cache, resolution_stack, name, 1),
        StackAfterGetParameter(raw_parameters, resolved_cache, resolution_stack, name, 1))

\* resolver.resolve_all()
CallResolveAll ==
    ResolverCalled("resolve_all", NONE,
        ResolveAll(raw_parameters, resolved_cache, 1, <<>>),
        StackAfterResolveAll(raw_parameters, resolved_cache, resolution_stack, 1))

\* resolver.resolve(value), called by a builder on a value of its spec
CallResolveValue(value) ==
    ResolverCalled("resolve", value,
        Resolve(raw_parameters, resolved_cache, resolution_stack, value, 0),
        StackAfterResolve(raw_parameters, resolved_cache, resolution_stack, value, 0))

NextResolver ==
    \/ \E n \in ResolverNames \cup Names(raw_parameters) \cup {"missing"} :
            CallGetParameter(n)
    \/ CallResolveAll
    \/ CallResolveValue(Expr("+", Name("b"), Name("a")))

SpecResolver == InitResolver /\ [][NextResolver]_vars

\* the parameters a raw value refers to
RawRefs(raw, n) == FindParameterRefs(RawValue(raw, n)) \cap Range(RawNames(raw))

RawDeps(raw) == {<<r, n>> \in Range(RawNames(raw)) \X Range(RawNames(raw)) : r \in RawRefs(raw, n)}

OnReferenceCycle(raw, n) == n \in Range(RawNames(raw)) /\ n \in Descendants(RawDeps(raw), n)

\* C10: get_parameter of a parameter on a reference cycle (a self-reference
\* included) returns to its caller with a ParameterResolutionError that
\* reports a name as not found or a circular reference, and never nests
\* deeper than there are parameters.
C10_CycleTerminates ==
    (rlast.op = "get_parameter" /\ OnReferenceCycle(raw_parameters, rlast.arg)) =>
        /\ ~rlast.out.ok
        /\ rlast.out.err.kind \in {"NameNotDefined", "CircularReference"}
        /\ rlast.out.deep <= Len(raw_parameters)

C10_Witness ==
    /\ rlast.op = "get_parameter"
    /\ OnReferenceCycle(raw_parameters, rlast.arg)
    /\ RawRefs(raw_parameters, rlast.arg) # {rlast.arg}
    /\ rlast.out.deep >= 2
    /\ ~rlast.out.ok

SpecGraph == InitGraph /\ [][NextGraph]_vars

(***************************************************************************)
(* Properties of the graph                                                 *)
(***************************************************************************)
Occurrences(s, x) == Cardinality({i \in 1..Len(s) : s[i] = x})

Precedes(s, u, v) ==
    \E i, j \in 1..Len(s) : i < j /\ s[i] = u /\ s[j] = v

Sorted == gstate = "built" /\ lastCall.op = "topological_sort"

\* C1: for every graph that build_graph returns, topological_sort() lists
\* every node exactly once and puts the dependency of every edge before its
\* dependent.
C1_TopologicalSortComplete ==
    Sorted =>
        /\ \A n \in NodeIds(nodes) : Occurrences(order, n) = 1
        /\ Range(order) \subseteq NodeIds(nodes)
        /\ \A e \in edges : Precedes(order, e[1], e[2])

C1_Witness ==
    /\ Sorted
    /\ Len(order) >= 3
    /\ Cardinality(edges) >= 2

\* the declarations a declaration reads, taken from the document itself
DeclaredParamDeps(d) ==
    {<<NodeId("parameter", ir[2]), NodeId("parameter", d.parameters[ir[1]].name)>> :
        ir \in {jr \in (1..Len(d.parameters)) \X Names(d.parameters) :
                /\ d.parameters[jr[1]].spec.kind = "expr"
                /\ jr[2] \in {d.parameters[jr[1]].spec.l.n, d.parameters[jr[1]].spec.r.n}}}

PlainReads(op_spec) ==
    {op_spec.input, op_spec.base} \cup
    {op_spec.inputs[i].base :
        i \in {j \in 1..Len(op_spec.inputs) : op_spec.inputs[j].kind = "name"}} \cup
    {op_spec.subtract[i].base :
        i \in {j \in 1..Len(op_spec.subtract) : op_spec.subtract[j].kind = "name"}}

DeclaredOpDeps(d) ==
    {<<NodeId("operation", d.operations[i].name), NodeId("operation", d.operations[j].name)>> :
        <<i, j>> \in {ij \in (1..Len(d.operations)) \X (1..Len(d.operations)) :
            /\ d.operations[ij[1]].name \in PlainReads(d.operations[ij[2]].spec)
            /\ d.operations[ij[1]].name \notin Names(d.parts)}}

HasLongCycle(d) ==
    LET deps == DeclaredParamDeps(d) \cup DeclaredOpDeps(d)
    IN \E e \in deps : e[1] # e[2] /\ e[1] \in Descendants(deps, e[2])

\* C2: build_graph on a document with a dependency cycle through two or more
\* declarations raises the circular-dependency error, the error names the
\* nodes of one cycle of the document, and no graph is returned.
C2_LongCycleRejected ==
    (gstate # "loaded" /\ HasLongCycle(doc)) =>
        /\ gstate = "failed"
        /\ error = "CircularDependency"
        /\ IsCycle(DeclaredParamDeps(doc) \cup DeclaredOpDeps(doc), cycle)

\* the nodes that produce what the builder of an operation reads
ProducerOfName(d, n) ==
    IF n \in Names(d.parts) THEN {NodeId("part", n)}
    ELSE IF n \in Names(d.operations) THEN {NodeId("operation", n)}
    ELSE {}

\* parts named base_i come from the pattern operation named base
ProducerOfMatches(d, base) ==
    {NodeId("operation", d.operations[i].name) :
        i \in {j \in 1..Len(d.operations) :
                /\ d.operations[j].name = base
                /\ d.operations[j].spec.type = "pattern"}}

ProducersOfEntry(d, e) ==
    IF e.kind = "name" THEN ProducerOfName(d, e.base)
    ELSE ProducerOfMatches(d, e.base)

Producers(d, op_spec) ==
    ProducerOfName(d, op_spec.input) \cup ProducerOfName(d, op_spec.base)
    \cup (IF op_spec.sketch \in Names(d.sketches)
          THEN {NodeId("sketch", op_spec.sketch)} ELSE {})
    \cup UNION {ProducersOfEntry(d, op_spec.inputs[i]) : i \in 1..Len(op_spec.inputs)}
    \cup UNION {ProducersOfEntry(d, op_spec.subtract[i]) : i \in 1..Len(op_spec.subtract)}

\* C3: for every name the builder of an operation reads, build_graph does
\* not fail on the entry and the node that produces the name precedes the
\* operation in the order topological_sort returns.
C3_ReadsPrecedeOperation ==
    /\ error # "TypeError"
    /\ Sorted =>
        \A i \in 1..Len(doc.operations) :
            \A u \in Producers(doc, doc.operations[i].spec) :
                u # NodeId("operation", doc.operations[i].name) =>
                    Precedes(order, u, NodeId("operation", doc.operations[i].name))

\* C6: after mark_invalid(B), B and every descendant of B are absent from
\* the valid set and are returned by get_invalid_nodes, and every other node
\* keeps its validity.
C6_InvalidationTransitive ==
    [][lastCall'.op = "mark_invalid" =>
        /\ \A n \in {lastCall'.arg} \cup Descendants(edges, lastCall'.arg) :
            /\ n \notin valid_nodes'
            /\ n \in GetInvalidNodes(Ids(nodes'), is_valid')
        /\ \A n \in NodeIds(nodes) \
                    ({lastCall'.arg} \cup Descendants(edges, lastCall'.arg)) :
            /\ is_valid'[n] = is_valid[n]
            /\ n \in valid_nodes' <=> n \in valid_nodes]_vars

\* C6 (amended): mark_invalid(B) takes B, and only B, out of the valid set
\* and into get_invalid_nodes; every other node, the descendants of B
\* included, keeps its validity.
C6_MarkInvalidSingleNode ==
    [][lastCall'.op = "mark_invalid" =>
        /\ valid_nodes' = valid_nodes \ {lastCall'.arg}
        /\ GetInvalidNodes(Ids(nodes'), is_valid') =
             GetInvalidNodes(Ids(nodes), is_valid) \cup {lastCall'.arg}
        /\ \A n \in NodeIds(nodes) \ {lastCall'.arg} : is_valid'[n] = is_valid[n]]_vars

C6_Witness ==
    /\ gstate = "built"
    /\ lastCall.op = "mark_invalid"
    /\ lastCall.arg \notin valid_nodes
    /\ Descendants(edges, lastCall.arg) \cap valid_nodes # {}

(***************************************************************************)
(* Actions of the registry                                                 *)
(***************************************************************************)
PoolNames == {"p", "q"}

Finishes == {"fillet", "chamfer"}

\* an empty PartRegistry
InitRegistry ==
    /\ registry = <<>> /\ heap = <<>> /\ lists = <<>> /\ plast = NoResult
    /\ doc = EmptyDocument
    /\ gstate = "loaded" /\ error = NONE /\ nodes = <<>> /\ edges = {}
    /\ cycle = <<>> /\ order = <<>> /\ is_valid = <<>> /\ valid_nodes = {}
    /\ lastCall = NoCall
    /\ raw_parameters = <<>> /\ resolved_cache = <<>> /\ resolution_stack = <<>>
    /\ rlast = NoResolverCall
    /\ bstate = "idle" /\ dispatched = <<>> /\ sketch_table = <<>> /\ outputs = <<>>
    /\ previous = NoSnapshot
    /\ tracker = NoTracker /\ tlast = NoTransformCall
    /\ shape = NoShape /\ slast = NoSelection

\* registry.add(Part(name, geometry))
AddPart(name) ==
    /\ Len(heap) < MaxObjects
    /\ LET ref == Len(heap) + 1
           r == RegistryAdd(registry, name, ref)
       IN /\ heap' = Append(heap, Part(name, <<"box">>, <<>>, <<>>, <<0, 0, 0>>))
          /\ registry' = r.reg
          /\ plast' = [op |-> "add", arg |-> name, ok |-> r.ok, error |-> r.error]
    /\ UNCHANGED <<lists, gvars, rvars, bvars, xvars>>

\* registry.add(registry.get(src).clone(new_name))
AddClone(src, new_name) ==
    /\ Len(heap) < MaxObjects
    /\ RegistryExists(registry, src)
    /\ LET ref == Len(heap) + 1
           r == RegistryAdd(registry, new_name, ref)
       IN /\ heap' = Append(heap, Clone(heap[RegistryGet(registry, src)], new_name))
          /\ registry' = r.reg
          /\ plast' = [op |-> "add", arg |-> new_name, ok |-> r.ok, error |-> r.error]
    /\ UNCHANGED <<lists, gvars, rvars, bvars, xvars>>

\* finishing_builder.execute_finishing_operation(op_name, {input, finish, ...})
ExecuteFinishing(input, finish) ==
    /\ \A i \in 1..Len(lists) : Len(lists[i]) < MaxFinishing
    /\ IF RegistryExists(registry, input)
       THEN LET f == ApplyFinishing(heap, lists, RegistryGet(registry, input), finish)
            IN /\ heap' = f.heap
               /\ lists' = f.lists
               /\ plast' = [op |-> "finishing", arg |-> input, ok |-> TRUE, error |-> NONE]
       ELSE /\ plast' = [op |-> "finishing", arg |-> input, ok |-> FALSE,
                         error |-> "FinishingBuilderError"]
            /\ UNCHANGED <<heap, lists>>
    /\ UNCHANGED <<registry, gvars, rvars, bvars, xvars>>

\* registry.clear()
ClearRegistry ==
    /\ registry # <<>>
    /\ registry' = <<>>
    /\ plast' = [op |-> "clear", arg |-> NONE, ok |-> TRUE, error |-> NONE]
    /\ UNCHANGED <<heap, lists, gvars, rvars, bvars, xvars>>

NextRegistry ==
    \/ \E n \in PoolNames : AddPart(n)
    \/ \E n, m \in PoolNames : AddClone(n, m)
    \/ \E n \in PoolNames, f \in Finishes : ExecuteFinishing(n, f)
    \/ ClearRegistry

SpecRegistry == InitRegistry /\ [][NextRegistry]_vars

\* C8: the registry never holds two parts under one name; add of a name
\* that is registered raises ValueError and leaves the registry, and so the
\* part first added under the name, as it was.
C8_UniqueNames ==
    /\ [](NoDup(ListParts(registry)))
    /\ [][(plast'.op = "add" /\ RegistryExists(registry, plast'.arg)) =>
            /\ ~plast'.ok
            /\ plast'.error = "ValueError"
            /\ registry' = registry]_vars
    /\ [][\A i \in 1..Len(registry) :
            RegistryExists(registry', registry[i].name) =>
                RegistryGet(registry', registry[i].name) = registry[i].ref]_vars

C8_Witness ==
    /\ plast.op = "add"
    /\ ~plast.ok
    /\ RegistryExists(registry, plast.arg)
    /\ Len(heap) > Len(registry)

\* C9: a successful finishing operation on P makes P's finishing_ops one
\* entry longer, keeps P's name and the registry (same Part, same names),
\* and changes the finishing_ops of no other part.
C9_FinishingFrame ==
    [][(plast'.op = "finishing" /\ plast'.ok) =>
        LET P == RegistryGet(registry, plast'.arg)
        IN /\ Len(FinishingOps(heap', lists', P)) = Len(FinishingOps(heap, lists, P)) + 1
           /\ heap'[P].name = heap[P].name
           /\ registry' = registry
           /\ \A i \in 1..Len(registry) :
                registry[i].ref # P =>
                    FinishingOps(heap', lists', registry[i].ref)
                        = FinishingOps(heap, lists, registry[i].ref)]_vars

(***************************************************************************)
(* Actions of the build                                                    *)
(***************************************************************************)
EmptyStore == Store(<<>>, <<>>, <<>>, <<>>, <<>>, <<>>)

CurrentStore ==
    [Store(registry, heap, lists, sketch_table, resolved_cache, outputs)
        EXCEPT !.ok = (bstate # "aborted")]

\* an orchestrator with a document to build
InitBuild ==
    /\ doc \in Documents
    /\ gstate = "loaded" /\ error = NONE /\ nodes = <<>> /\ edges = {}
    /\ cycle = <<>> /\ order = <<>> /\ is_valid = <<>> /\ valid_nodes = {}
    /\ lastCall = NoCall
    /\ raw_parameters = <<>> /\ resolved_cache = <<>> /\ resolution_stack = <<>>
    /\ rlast = NoResolverCall
    /\ registry = <<>> /\ heap = <<>> /\ lists = <<>> /\ plast = NoResult
    /\ bstate = "idle" /\ dispatched = <<>> /\ sketch_table = <<>> /\ outputs = <<>>
    /\ previous = NoSnapshot
    /\ tracker = NoTracker /\ tlast = NoTransformCall
    /\ shape = NoShape /\ slast = NoSelection

\* steps 1 to 3: construct the graph, reject cycles, take the order,
\* instantiate the registry and the tables
StartBuild ==
    /\ bstate = "idle"
    /\ lastCall' = [op |-> "build_graph", arg |-> NONE]
    /\ raw_parameters' = doc.parameters
    /\ UNCHANGED <<doc, resolved_cache, resolution_stack, rlast, pvars, xvars,
                   dispatched, sketch_table, outputs, previous>>
    /\ IF ExtractRaises(doc)
       THEN /\ gstate' = "failed" /\ error' = "TypeError" /\ bstate' = "aborted"
            /\ UNCHANGED <<nodes, edges, cycle, order, is_valid, valid_nodes>>
       ELSE LET ns == AllNodes(doc)
                es == AllEdges(doc)
                cs == DetectCycles(Ids(ns), es)
            IN IF cs # {}
               THEN /\ gstate' = "failed" /\ error' = "CircularDependency"
                    /\ bstate' = "aborted"
                    /\ \E c \in cs : cycle' = c
                    /\ UNCHANGED <<nodes, edges, order, is_valid, valid_nodes>>
               ELSE /\ gstate' = "built" /\ error' = NONE
                    /\ nodes' = ns /\ edges' = es /\ cycle' = <<>>
                    /\ order' = TopologicalSort(Ids(ns), es)
                    /\ is_valid' = [n \in NodeIds(ns) |-> TRUE]
                    /\ valid_nodes' = NodeIds(ns)
                    /\ bstate' = IF ns = <<>> THEN "done" ELSE "running"

\* step 4 for one node: its builder runs; a failure aborts the build
Dispatch(id) ==
    /\ bstate = "running"
    /\ Ready(edges, dispatched, id)
    /\ LET st == Execute(CurrentStore, raw_parameters, NodeOf(nodes, id))
       IN /\ registry' = st.registry /\ heap' = st.heap /\ lists' = st.lists
          /\ sketch_table' = st.sketches /\ resolved_cache' = st.cache
          /\ outputs' = st.out
          /\ dispatched' = Append(dispatched, id)
          /\ plast' = [op |-> "dispatch", arg |-> id, ok |-> st.ok, error |-> st.error]
          /\ bstate' = IF ~st.ok THEN "aborted"
                       ELSE IF Len(dispatched) + 1 = Len(nodes) THEN "done"
                       ELSE "running"
    /\ UNCHANGED <<gvars, raw_parameters, resolution_stack, rlast, previous, xvars>>

Snapshot ==
    [hash |-> [id \in NodeIds(nodes) |-> NodeOf(nodes, id).hash_value],
     out |-> outputs, order |-> dispatched]

\* the document is edited after a build and the orchestrator starts over
Restart(edited) ==
    /\ bstate = "done"
    /\ previous = NoSnapshot
    /\ doc' = edited
    /\ previous' = Snapshot
    /\ gstate' = "loaded" /\ error' = NONE /\ nodes' = <<>> /\ edges' = {}
    /\ cycle' = <<>> /\ order' = <<>> /\ is_valid' = <<>> /\ valid_nodes' = {}
    /\ lastCall' = NoCall
    /\ raw_parameters' = <<>> /\ resolved_cache' = <<>>
    /\ registry' = <<>> /\ heap' = <<>> /\ lists' = <<>> /\ plast' = NoResult
    /\ bstate' = "idle" /\ dispatched' = <<>> /\ sketch_table' = <<>> /\ outputs' = <<>>
    /\ UNCHANGED <<resolution_stack, rlast, xvars>>

NewValue == Lit(20)

\* the value of a numeric parameter is changed
EditParameter(i) ==
    /\ i \in 1..Len(doc.parameters)
    /\ doc.parameters[i].spec.kind = "lit"
    /\ Restart([doc EXCEPT !.parameters[i].spec = NewValue])

\* the width written in a part's spec is changed
EditPart(i) ==
    /\ i \in 1..Len(doc.parts)
    /\ doc.parts[i].spec.width.kind = "lit"
    /\ Restart([doc EXCEPT !.parts[i].spec.width = NewValue])

\* the width written in a sketch's spec is changed
EditSketch(i) ==
    /\ i \in 1..Len(doc.sketches)
    /\ doc.sketches[i].spec.width.kind = "lit"
    /\ Restart([doc EXCEPT !.sketches[i].spec.width = NewValue])

NextBuild ==
    \/ StartBuild
    \/ \E id \in NodeIds(nodes) : Dispatch(id)
    \/ \E i \in 1..MaxDecls : EditParameter(i)
    \/ \E i \in 1..MaxDecls : EditPart(i)
    \/ \E i \in 1..MaxDecls : EditSketch(i)

SpecBuild == InitBuild /\ [][NextBuild]_vars

(***************************************************************************)
(* Properties of the build                                                 *)
(***************************************************************************)
Finished == gstate = "built" /\ bstate \in {"done", "aborted"}

\* C5: whatever edge-respecting order the nodes were dispatched in, the
\* build ends with the registry contents (or the failure) of the build
\* that follows topological_sort().
C5_OrderIndependent ==
    Finished =>
        Contents(CurrentStore)
            = Contents(BuildAlong(EmptyStore, raw_parameters, nodes, order, 1))

\* C7: a node whose hash is the same in two builds has the same output in
\* both, the nodes being dispatched in the same order.
C7_EqualHashEqualOutput ==
    (bstate = "done" /\ previous # NoSnapshot /\ previous.order = dispatched) =>
        \A id \in NodeIds(nodes) \cap DOMAIN previous.hash :
            previous.hash[id] = NodeOf(nodes, id).hash_value =>
                outputs[id] = previous.out[id]

RegistersOwnName(node) ==
    node.node_type = "part" \/ node.spec.type \notin {"pattern", "finishing"}

RunsBuilder(id) == bstate = "running" /\ dispatched' = Append(dispatched, id)

\* C4 as stated: when the builder of N runs, every direct predecessor of N
\* that is a part or an operation is in the registry under its own name.
C4_PredecessorsRegistered ==
    [][\A id \in NodeIds(nodes) : RunsBuilder(id) =>
        \A m \in Predecessors(edges, id) :
            NodeOf(nodes, m).node_type \in {"part", "operation"} =>
                RegistryExists(registry, NodeOf(nodes, m).name)]_vars

\* C4 amended: when the builder of N runs, every direct predecessor of N
\* that is a part, or an operation other than a pattern or a finishing, is
\* in the registry under its own name.
C4_OwnNamePredecessorsRegistered ==
    [][\A id \in NodeIds(nodes) : RunsBuilder(id) =>
        \A m \in Predecessors(edges, id) :
            (/\ NodeOf(nodes, m).node_type \in {"part", "operation"}
             /\ RegistersOwnName(NodeOf(nodes, m))) =>
                RegistryExists(registry, NodeOf(nodes, m).name)]_vars

C4_Witness ==
    /\ bstate = "done"
    /\ \E e \in edges :
        /\ NodeOf(nodes, e[1]).node_type = "operation"
        /\ RegistersOwnName(NodeOf(nodes, e[1]))
        /\ RegistryExists(registry, NodeOf(nodes, e[1]).name)
        /\ RegistryExists(registry, NodeOf(nodes, e[2]).name)

(***************************************************************************)
(* Actions of the boolean builder                                          *)
(***************************************************************************)
BoolNames == {"b", "h_0", "h_1"}

ResultNames == {"r", "b"}

Appearances ==
    {<<>>,
     [color |-> Str("red")],
     [color |-> Str("blue"), finish |-> Str("matte"), primitive_type |-> Str("box")]}

\* the entries a part list is written with: names, wildcards before and
\* after the fixed text, pattern and range dicts
BoolEntries ==
    {Plain("b"), Plain("h_0"), Wildcard("h"), Plain("*_1"), Plain("zz*"),
     PatternOf("h"), RangeOf("h", 0, 1), RangeOf("h", 1, 0), RangeOf("h", 0 - 1, 0 - 1)}

BoolLists ==
    {<<e>> : e \in BoolEntries} \cup {<<Plain("b"), e>> : e \in BoolEntries}
    \cup {<<Wildcard("h"), Plain("b")>>, <<PatternOf("h"), Plain("h_0")>>}

BoolSpec(op, bs, ins, sub) ==
    ("operation" :> op) @@ OpSpec("boolean", NONE, NONE, bs, NONE, ins, sub)

BoolSpecs ==
    {BoolSpec("union", NONE, l, <<>>) : l \in BoolLists}
    \cup {BoolSpec("intersection", bs, l, <<>>) : bs \in {NONE, "b"}, l \in BoolLists}
    \cup {BoolSpec("difference", "b", <<>>, l) : l \in BoolLists}
    \cup {BoolSpec("difference", "h_0", <<>>, <<Plain("b")>>),
          BoolSpec("xor", NONE, <<Plain("b"), Plain("h_0")>>, <<>>)}

\* a registry of primitive parts, each with its appearance
InitBoolean ==
    /\ \E parts \in Sections(BoolNames, Appearances, MaxObjects) :
        /\ registry = [i \in 1..Len(parts) |-> [name |-> parts[i].name, ref |-> i]]
        /\ heap = [i \in 1..Len(parts) |->
                     Part(parts[i].name, <<parts[i].name>>, parts[i].spec, <<>>, <<0, 0, 0>>)]
    /\ lists = <<>> /\ plast = NoResult
    /\ doc = EmptyDocument
    /\ gstate = "loaded" /\ error = NONE /\ nodes = <<>> /\ edges = {}
    /\ cycle = <<>> /\ order = <<>> /\ is_valid = <<>> /\ valid_nodes = {}
    /\ lastCall = NoCall
    /\ raw_parameters = <<>> /\ resolved_cache = <<>> /\ resolution_stack = <<>>
    /\ rlast = NoResolverCall
    /\ bstate = "idle" /\ dispatched = <<>> /\ sketch_table = <<>> /\ outputs = <<>>
    /\ previous = NoSnapshot
    /\ tracker = NoTracker /\ tlast = NoTransformCall
    /\ shape = NoShape /\ slast = NoSelection

\* the part list the operation expands: subtract for a difference, inputs
\* for a union or an intersection
ExpandedList(spec) ==
    IF spec.operation = "difference" THEN spec.subtract ELSE spec.inputs

BooleanStore == Store(registry, heap, lists, <<>>, <<>>, <<>>)

\* boolean_builder.execute_boolean_operation(name, spec)
CallBoolean(name, spec) ==
    /\ Len(registry) <= MaxObjects
    /\ ~RegistryExists(registry, "r")
    /\ plast.op = "boolean" => plast.ok
    /\ LET st == ExecuteBooleanOperation(BooleanStore, name, spec)
       IN /\ registry' = st.registry
          /\ heap' = st.heap
          /\ plast' = [op |-> "boolean", arg |-> name, ok |-> st.ok, error |-> st.error,
                       spec |-> spec, before |-> registry, heap_before |-> heap,
                       expanded |-> ExpandPartList(registry, ExpandedList(spec)),
                       message |-> BooleanMessage(BooleanStore, name, spec)]
    /\ UNCHANGED <<lists, gvars, rvars, bvars, xvars>>

NextBoolean == \E name \in ResultNames, spec \in BoolSpecs : CallBoolean(name, spec)

SpecBoolean == InitBoolean /\ [][NextBoolean]_vars

(***************************************************************************)
(* Actions of metadata_utils                                               *)
(***************************************************************************)
\* the dicts with keys among keys, every value being Str(tag)
Dicts(keys, tag) == UNION {[ks -> {Str(tag)}] : ks \in SUBSET keys}

SourceDicts == Dicts({"color", "finish", "primitive_type"}, "of_source")

TargetDicts == Dicts({"operation_type", "color"}, "of_operation")

OverrideDicts == Dicts({"color", "operation_type"}, "override")

\* three dict objects a caller holds
InitMetadata ==
    /\ heap \in {<<s, t, o>> : s \in SourceDicts, t \in TargetDicts, o \in OverrideDicts}
    /\ registry = <<>> /\ lists = <<>> /\ plast = NoResult
    /\ doc = EmptyDocument
    /\ gstate = "loaded" /\ error = NONE /\ nodes = <<>> /\ edges = {}
    /\ cycle = <<>> /\ order = <<>> /\ is_valid = <<>> /\ valid_nodes = {}
    /\ lastCall = NoCall
    /\ raw_parameters = <<>> /\ resolved_cache = <<>> /\ resolution_stack = <<>>
    /\ rlast = NoResolverCall
    /\ bstate = "idle" /\ dispatched = <<>> /\ sketch_table = <<>> /\ outputs = <<>>
    /\ previous = NoSnapshot
    /\ tracker = NoTracker /\ tlast = NoTransformCall
    /\ shape = NoShape /\ slast = NoSelection

\* result = copy_propagating_metadata(source, target, overrides)
CallCopyPropagating(source, target, overrides) ==
    /\ Len(heap) <= MaxObjects
    /\ LET c == CopyPropagatingObjects(heap, source, target, overrides)
       IN /\ heap' = c.heap
          /\ plast' = [op |-> "copy_propagating_metadata", arg |-> NONE, ok |-> TRUE,
                       error |-> NONE, source |-> source, target |-> target,
                       overrides |-> overrides, result |-> c.result, before |-> heap]
    /\ UNCHANGED <<registry, lists, gvars, rvars, bvars, xvars>>

NextMetadata ==
    \E source \in {NoDict} \cup (1..Len(heap)), target \in 1..Len(heap),
       overrides \in {NoDict} \cup (1..Len(heap)) :
        CallCopyPropagating(source, target, overrides)

SpecMetadata == InitMetadata /\ [][NextMetadata]_vars

(***************************************************************************)
(* ModelGraph.topological_sort(nodes) on a graph built with add_node and   *)
(* add_dependency                                                          *)
(***************************************************************************)
MaxNodes == 4

\* the node order of graph.subgraph(nodes): the graph's own order, or the
\* iteration order of the set nodes when the set is less than half the graph
SubgraphIds(ids, subset, iteration) ==
    IF 2 * Cardinality(subset) < Len(ids) THEN iteration
    ELSE SelectSeq(ids, LAMBDA v : v \in subset)

\* the edges of graph.subgraph(nodes): those with both ends in nodes
SubgraphEdges(es, subset) == {e \in es : e[1] \in subset /\ e[2] \in subset}

\* topological_sort(nodes) with nodes given
TopologicalSortOf(ids, es, subset, iteration) ==
    TopologicalSort(SubgraphIds(ids, subset \cap Range(ids), iteration),
                    SubgraphEdges(es, subset \cap Range(ids)))

NodeNames == <<"a", "b", "c", "d", "e">>

\* add_node in the order of the names, or in the opposite order
Insertions(n) ==
    {[i \in 1..n |-> GraphNode("part", NodeNames[i], <<>>, <<>>, FALSE)],
     [i \in 1..n |-> GraphNode("part", NodeNames[n + 1 - i], <<>>, <<>>, FALSE)]}

\* add_dependency from a later name to an earlier one: no cycle
Dependencies(n) ==
    SUBSET {<<NodeId("part", NodeNames[i]), NodeId("part", NodeNames[j])>> :
                <<i, j>> \in {ij \in (1..n) \X (1..n) : ij[1] < ij[2]}}

Orderings(subset) ==
    {f \in [1..Cardinality(subset) -> subset] :
        \A i, j \in 1..Cardinality(subset) : i # j => f[i] # f[j]}

\* a graph, and the subset topological_sort is about to be given
InitSubgraph ==
    /\ \E n \in 2..MaxNodes :
        /\ nodes \in Insertions(n)
        /\ edges \in Dependencies(n)
        /\ \E subset \in SUBSET {NodeId("part", NodeNames[i]) : i \in 1..n} :
                lastCall = [op |-> "call", arg |-> subset]
    /\ gstate = "built" /\ error = NONE /\ cycle = <<>> /\ order = <<>>
    /\ is_valid = <<>> /\ valid_nodes = {}
    /\ doc = EmptyDocument
    /\ raw_parameters = <<>> /\ resolved_cache = <<>> /\ resolution_stack = <<>>
    /\ rlast = NoResolverCall
    /\ registry = <<>> /\ heap = <<>> /\ lists = <<>> /\ plast = NoResult
    /\ bstate = "idle" /\ dispatched = <<>> /\ sketch_table = <<>> /\ outputs = <<>>
    /\ previous = NoSnapshot
    /\ tracker = NoTracker /\ tlast = NoTransformCall
    /\ shape = NoShape /\ slast = NoSelection

\* graph.topological_sort(nodes)
SortSubset(iteration) ==
    /\ lastCall.op = "call"
    /\ order' = TopologicalSortOf(Ids(nodes), edges, lastCall.arg, iteration)
    /\ lastCall' = [op |-> "topological_sort_of", arg |-> lastCall.arg]
    /\ UNCHANGED <<doc, gstate, error, nodes, edges, cycle, is_valid, valid_nodes>>
    /\ UNCHANGED <<rvars, pvars, bvars, xvars>>

NextSubgraph == \E iteration \in Orderings(lastCall.arg) : SortSubset(iteration)

SpecSubgraph == InitSubgraph /\ [][NextSubgraph]_vars

(***************************************************************************)
(* TransformTracker and the transform history of a Part                    *)
(***************************************************************************)
MaxTransforms == 2

\* a transform dict: keys are the keys it holds, transform.get(k) is None
\* for any other key
TransformDict(keys, type, offset, angle, axis, origin) ==
    [keys |-> keys, type |-> type, offset |-> offset, angle |-> angle,
     axis |-> axis, origin |-> origin]

\* origin: 'current' | 'initial' | [x, y, z] | anything else
Keyword(k) == [kind |-> k, at |-> <<0, 0, 0>>]

Coords(at) == [kind |-> "coords", at |-> at]

\* TransformTracker(geometry), the geometry having its centre at position
TransformTracker(geometry, position) ==
    [geometry |-> geometry, initial_position |-> position,
     current_position |-> position, history |-> <<>>,
     last_rotation_origin |-> <<>>]

TrackerOk(t) == [ok |-> TRUE, error |-> NONE, tracker |-> t]

TrackerRaises(t, exception) == [ok |-> FALSE, error |-> exception, tracker |-> t]

\* _apply_translate
ApplyTranslate(t, transform) ==
    IF "offset" \notin transform.keys \/ transform.offset = <<>>
    THEN TrackerRaises(t, "ValueError")
    ELSE TrackerOk([t EXCEPT
            !.geometry = Append(@, <<"translate", transform.offset>>),
            !.current_position = <<@[1] + transform.offset[1],
                                   @[2] + transform.offset[2],
                                   @[3] + transform.offset[3]>>])

\* _resolve_axis of a named axis
ResolveAxis(axis) ==
    IF axis = "X" THEN <<1, 0, 0>>
    ELSE IF axis = "Y" THEN <<0, 1, 0>>
    ELSE IF axis = "Z" THEN <<0, 0, 1>>
    ELSE <<>>

\* _resolve_origin
ResolveOrigin(t, origin) ==
    IF origin.kind = "current" THEN t.current_position
    ELSE IF origin.kind = "initial" THEN t.initial_position
    ELSE IF origin.kind = "coords" THEN origin.at
    ELSE <<>>

\* math.cos and math.sin of the quarter turns
Cos(angle) == <<1, 0, 0 - 1, 0>>[((angle \div 90) % 4) + 1]

Sin(angle) == <<0, 1, 0, 0 - 1>>[((angle \div 90) % 4) + 1]

\* _rotate_point: Rodrigues' rotation formula
RotatePoint(point, angle, axis, origin) ==
    LET x == point[1] - origin[1]
        y == point[2] - origin[2]
        z == point[3] - origin[3]
        dot == axis[1] * x + axis[2] * y + axis[3] * z
        cross_x == axis[2] * z - axis[3] * y
        cross_y == axis[3] * x - axis[1] * z
        cross_z == axis[1] * y - axis[2] * x
        rx == x * Cos(angle) + cross_x * Sin(angle) + axis[1] * dot * (1 - Cos(angle))
        ry == y * Cos(angle) + cross_y * Sin(angle) + axis[2] * dot * (1 - Cos(angle))
        rz == z * Cos(angle) + cross_z * Sin(angle) + axis[3] * dot * (1 - Cos(angle))
    IN <<rx + origin[1], ry + origin[2], rz + origin[3]>>

ApplyRotateDefaulting(t, transform) ==
    IF "angle" \notin transform.keys THEN TrackerRaises(t, "ValueError")
    ELSE IF "axis" \notin transform.keys THEN TrackerRaises(t, "ValueError")
    ELSE IF ResolveAxis(transform.axis) = <<>> THEN TrackerRaises(t, "ValueError")
    ELSE IF "origin" \in transform.keys /\ ResolveOrigin(t, transform.origin) = <<>>
    THEN TrackerRaises(t, "ValueError")
    ELSE LET origin_coords == IF "origin" \in transform.keys
                              THEN ResolveOrigin(t, transform.origin)
                              ELSE t.current_position
         IN TrackerOk([t EXCEPT
                !.last_rotation_origin = origin_coords,
                !.geometry = Append(@, <<"rotate", transform.angle,
                                         ResolveAxis(transform.axis), origin_coords>>),
                !.current_position = RotatePoint(@, transform.angle,
                                         ResolveAxis(transform.axis), origin_coords)])

\* _apply_rotate: angle, axis and origin are required; the axis and the
\* origin are resolved before anything is changed
ApplyRotate(t, transform) ==
    IF "angle" \notin transform.keys THEN TrackerRaises(t, "ValueError")
    ELSE IF "axis" \notin transform.keys THEN TrackerRaises(t, "ValueError")
    ELSE IF "origin" \notin transform.keys THEN TrackerRaises(t, "ValueError")
    ELSE IF ResolveAxis(transform.axis) = <<>> THEN TrackerRaises(t, "ValueError")
    ELSE IF ResolveOrigin(t, transform.origin) = <<>> THEN TrackerRaises(t, "ValueError")
    ELSE TrackerOk([t EXCEPT
            !.last_rotation_origin = ResolveOrigin(t, transform.origin),
            !.geometry = Append(@, <<"rotate", transform.angle,
                                     ResolveAxis(transform.axis),
                                     ResolveOrigin(t, transform.origin)>>),
            !.current_position = RotatePoint(@, transform.angle,
                                     ResolveAxis(transform.axis),
                                     ResolveOrigin(t, transform.origin))])

\* the end of apply_transform: the record appended to the history
Recorded(transform, position_before, a) ==
    IF ~a.ok THEN a
    ELSE TrackerOk([a.tracker EXCEPT
            !.history = Append(@, [type |-> transform.type,
                                   position_before |-> position_before,
                                   position_after |-> a.tracker.current_position])])

\* apply_transform(transform)
ApplyTransform(t, transform) ==
    IF "type" \notin transform.keys THEN TrackerRaises(t, "ValueError")
    ELSE IF transform.type = "translate"
    THEN Recorded(transform, t.current_position, ApplyTranslate(t, transform))
    ELSE IF transform.type = "rotate"
    THEN Recorded(transform, t.current_position, ApplyRotate(t, transform))
    ELSE TrackerRaises(t, "ValueError")

\* Part.add_transform(transform_type, params)
AddTransform(part, transform_type, params) ==
    [part EXCEPT !.transform_history =
        Append(@, [type |-> transform_type, params |-> params,
                   position_before |-> part.current_position])]

\* Part.update_position(new_position)
UpdatePosition(part, new_position) == [part EXCEPT !.current_position = new_position]

(***************************************************************************)
(* Actions of the transforms                                               *)
(***************************************************************************)
Offsets == {<<10, 0, 0>>, <<0, 5, 0>>}

Origins == {Keyword("current"), Keyword("initial"), Coords(<<0, 0, 0>>), Keyword("here")}

Translates ==
    {TransformDict({"type", "offset"}, "translate", o, 0, NONE, Keyword("none")) : o \in Offsets}
    \cup {TransformDict({"type"}, "translate", <<>>, 0, NONE, Keyword("none"))}

Rotates ==
    {TransformDict({"type", "angle", "axis", "origin"}, "rotate", <<>>, 90, "Z", origin) :
        origin \in Origins}
    \cup {TransformDict({"type", "angle", "axis", "origin"} \ {missing}, "rotate", <<>>, 90,
                        "Z", Keyword("current")) : missing \in {"angle", "axis", "origin"}}
    \cup {TransformDict({"type", "angle", "axis", "origin"}, "rotate", <<>>, 90, "W",
                        Keyword("current"))}

Transforms ==
    Translates \cup Rotates
    \cup {TransformDict({"type"}, "scale", <<>>, 0, NONE, Keyword("none")),
          TransformDict({}, NONE, <<>>, 0, NONE, Keyword("none"))}

\* a tracker on a box, and a Part holding the same box
InitTransform ==
    /\ \E position \in {<<0, 0, 0>>, <<10, 0, 0>>} :
        /\ tracker = TransformTracker(<<"box">>, position)
        /\ heap = <<Part("p", <<"box">>, <<>>, <<>>, position)>>
    /\ tlast = NoTransformCall
    /\ shape = NoShape /\ slast = NoSelection
    /\ registry = <<>> /\ lists = <<>> /\ plast = NoResult
    /\ doc = EmptyDocument
    /\ gstate = "loaded" /\ error = NONE /\ nodes = <<>> /\ edges = {}
    /\ cycle = <<>> /\ order = <<>> /\ is_valid = <<>> /\ valid_nodes = {}
    /\ lastCall = NoCall
    /\ raw_parameters = <<>> /\ resolved_cache = <<>> /\ resolution_stack = <<>>
    /\ rlast = NoResolverCall
    /\ bstate = "idle" /\ dispatched = <<>> /\ sketch_table = <<>> /\ outputs = <<>>
    /\ previous = NoSnapshot

Transformed(transform, a) ==
    /\ tracker' = a.tracker
    /\ tlast' = [op |-> "apply_transform", ok |-> a.ok, error |-> a.error,
                 transform |-> transform, before |-> tracker]

\* tracker.apply_transform(transform)
CallApplyTransform(transform) ==
    /\ Len(tracker.history) < MaxTransforms
    /\ Transformed(transform, ApplyTransform(tracker, transform))
    /\ UNCHANGED <<shape, slast, gvars, rvars, pvars, bvars>>

\* part.add_transform(transform_type, params)
CallAddTransform(transform_type, params) ==
    /\ Len(heap[1].transform_history) < MaxTransforms
    /\ heap' = [heap EXCEPT ![1] = AddTransform(@, transform_type, params)]
    /\ tlast' = [op |-> "add_transform", ok |-> TRUE, error |-> NONE,
                 transform |-> transform_type, before |-> heap[1]]
    /\ UNCHANGED <<tracker, shape, slast, registry, lists, plast, gvars, rvars, bvars>>

\* part.update_position(new_position)
CallUpdatePosition(new_position) ==
    /\ heap[1].current_position # new_position
    /\ heap' = [heap EXCEPT ![1] = UpdatePosition(@, new_position)]
    /\ tlast' = [op |-> "update_position", ok |-> TRUE, error |-> NONE,
                 transform |-> NONE, before |-> heap[1]]
    /\ UNCHANGED <<tracker, shape, slast, registry, lists, plast, gvars, rvars, bvars>>

NextTransform ==
    \/ \E transform \in Transforms : CallApplyTransform(transform)
    \/ \E transform_type \in {"translate", "rotate"} :
            CallAddTransform(transform_type, <<>>)
    \/ \E new_position \in {<<0, 0, 0>>, <<10, 0, 0>>} : CallUpdatePosition(new_position)

SpecTransform == InitTransform /\ [][NextTransform]_vars

(***************************************************************************)
(* SelectorResolver                                                        *)
(* A selector string is held as the sequence of its words, the text        *)
(* between runs of whitespace; a feature list as the sequence of its       *)
(* features, list(set) giving the features in a fixed order.               *)
(***************************************************************************)
MaxWords == 5

FeatureTypes == {"face", "edge", "vertex"}

Feature(kind, axis, center) == [kind |-> kind, axis |-> axis, center |-> center]

Unit(axis, sign) == [i \in 1..3 |-> IF i = axis THEN sign ELSE 0]

\* the corner-to-corner edges of a box: parallel to axis, at the two signs
\* on the other two axes
EdgeCenter(axis, s, t) ==
    IF axis = 1 THEN <<0, s, t>> ELSE IF axis = 2 THEN <<s, 0, t>> ELSE <<s, t, 0>>

\* cq.Workplane("XY").box(10, 10, 10): six faces and twelve edges
Box ==
    {Feature("face", axis, Unit(axis, sign)) : axis \in 1..3, sign \in {0 - 1, 1}}
    \cup {Feature("edge", axis, EdgeCenter(axis, s, t)) :
            axis \in 1..3, s \in {0 - 1, 1}, t \in {0 - 1, 1}}

\* a square face in the XY plane: one face and four edges
Plate ==
    {Feature("face", 3, <<0, 0, 0>>)}
    \cup {Feature("edge", 1, <<0, s, 0>>) : s \in {0 - 1, 1}}
    \cup {Feature("edge", 2, <<s, 0, 0>>) : s \in {0 - 1, 1}}

OfKind(geometry, kind) == {f \in geometry : f.kind = kind}

AxisOf(letter) == IF letter = "X" THEN 1 ELSE IF letter = "Y" THEN 2 ELSE 3

\* geometry.faces(selector) and geometry.edges(selector) of the backend
Backend(geometry, kind, selector) ==
    LET fs == OfKind(geometry, kind)
        op == SubSeq(selector, 1, 1)
        a == AxisOf(SubSeq(selector, 2, 2))
    IN IF op = ">" THEN {f \in fs : \A g \in fs : g.center[a] <= f.center[a]}
       ELSE IF op = "<" THEN {f \in fs : \A g \in fs : f.center[a] <= g.center[a]}
       ELSE IF op = "|" THEN {f \in fs : f.axis = a}
       ELSE {f \in fs : f.axis # a}

\* the order of the features of a list
Before(f, g) ==
    \/ f.axis < g.axis
    \/ f.axis = g.axis /\ f.center[1] < g.center[1]
    \/ f.axis = g.axis /\ f.center[1] = g.center[1] /\ f.center[2] < g.center[2]
    \/ f.axis = g.axis /\ f.center[1] = g.center[1] /\ f.center[2] = g.center[2]
       /\ f.center[3] < g.center[3]

RECURSIVE ListOf(_)
\* list(features)
ListOf(features) ==
    IF features = {} THEN <<>>
    ELSE LET first == CHOOSE f \in features : \A g \in features \ {f} : Before(f, g)
         IN <<first>> \o ListOf(features \ {first})

\* set(features)
SetOf(list) == {list[i] : i \in DOMAIN list}

Selected(list) == [ok |-> TRUE, error |-> NONE, features |-> list]

Rejected(message) == [ok |-> FALSE, error |-> message, features |-> <<>>]

\* SIMPLE_SELECTOR: ^[><|#][XYZ]$ matches the whole text
IsSimple(words) ==
    /\ Len(words) = 1
    /\ Len(words[1]) = 2
    /\ SubSeq(words[1], 1, 1) \in {">", "<", "|", "#"}
    /\ SubSeq(words[1], 2, 2) \in {"X", "Y", "Z"}

\* _has_and, _has_or: the word with whitespace on both of its sides
HasWord(words, word) == \E i \in 2..(Len(words) - 1) : words[i] = word

\* _has_not: the text starts with 'not' and whitespace
HasNot(words) == Len(words) >= 2 /\ words[1] = "not"

RECURSIVE SplitFrom(_, _, _, _, _, _)
SplitFrom(words, word, i, current, parts, consumed) ==
    IF i > Len(words) THEN Append(parts, current)
    ELSE IF words[i] = word /\ i > 1 /\ i < Len(words) /\ ~consumed
    THEN SplitFrom(words, word, i + 1, <<>>, Append(parts, current), TRUE)
    ELSE SplitFrom(words, word, i + 1, Append(current, words[i]), parts, FALSE)

\* AND_COMBINATOR.split, OR_COMBINATOR.split: a match takes the whitespace
\* on both sides of the word, so the word after a match is no match
Split(words, word) == SplitFrom(words, word, 1, <<>>, <<>>, FALSE)

\* _resolve_simple
ResolveSimple(geometry, words, feature_type) ==
    IF ~IsSimple(words) THEN Rejected("Invalid simple selector")
    ELSE IF feature_type \notin {"face", "edge"} THEN Rejected("CadQuery error")
    ELSE Selected(ListOf(Backend(geometry, feature_type, words[1])))

IntersectionOfLeft(left, right) ==
    IF ~left.ok THEN left
    ELSE IF ~right.ok THEN right
    ELSE Selected(ListOf(SetOf(left.features)))

\* the end of _resolve_and
Intersection(left, right) ==
    IF ~left.ok THEN left
    ELSE IF ~right.ok THEN right
    ELSE Selected(ListOf(SetOf(left.features) \cap SetOf(right.features)))

\* the end of _resolve_or
Union(left, right) ==
    IF ~left.ok THEN left
    ELSE IF ~right.ok THEN right
    ELSE Selected(ListOf(SetOf(left.features) \cup SetOf(right.features)))

ComplementOfNothing(geometry, feature_type, matching) ==
    IF ~matching.ok THEN matching
    ELSE Selected(ListOf(OfKind(geometry, feature_type)))

\* the end of _resolve_not
Complement(geometry, feature_type, matching) ==
    IF ~matching.ok THEN matching
    ELSE Selected(ListOf(OfKind(geometry, feature_type) \ SetOf(matching.features)))

RECURSIVE SelectorResolve(_, _, _)
\* resolve(selector, feature_type), with _resolve_not, _resolve_and and
\* _resolve_or, each of which resolves its operands with resolve
SelectorResolve(geometry, words, feature_type) ==
    IF HasNot(words)
    THEN IF feature_type \notin {"face", "edge"}
         THEN Rejected("Unsupported feature type")
         ELSE Complement(geometry, feature_type,
                         SelectorResolve(geometry, Tail(words), feature_type))
    ELSE IF HasWord(words, "and")
    THEN IF Len(Split(words, "and")) # 2
         THEN Rejected("Expected exactly one 'and' operator")
         ELSE Intersection(
                SelectorResolve(geometry, Split(words, "and")[1], feature_type),
                SelectorResolve(geometry, Split(words, "and")[2], feature_type))
    ELSE IF HasWord(words, "or")
    THEN IF Len(Split(words, "or")) # 2
         THEN Rejected("Expected exactly one 'or' operator")
         ELSE Union(
                SelectorResolve(geometry, Split(words, "or")[1], feature_type),
                SelectorResolve(geometry, Split(words, "or")[2], feature_type))
    ELSE ResolveSimple(geometry, words, feature_type)

(***************************************************************************)
(* Actions of the selector resolver                                        *)
(***************************************************************************)
Simples == {">Z", ">X", "<X", "|Z"}

Words == Simples \cup {"and", "or", "not"}

RECURSIVE Texts(_)
Texts(n) ==
    IF n = 0 THEN {<<>>}
    ELSE {<<>>} \cup {<<w>> \o t : w \in Words, t \in Texts(n - 1)}

Selectors == Texts(MaxWords) \ {<<>>}

\* a call of resolve that has not run yet
Pending(words, feature_type) ==
    [op |-> "call", selector |-> words, feature_type |-> feature_type,
     ok |-> TRUE, error |-> NONE, features |-> <<>>]

\* SelectorResolver(part_geometry), and the selector it is about to be given
InitSelector ==
    /\ shape \in {Box, Plate}
    /\ \E words \in Selectors, feature_type \in FeatureTypes :
            slast = Pending(words, feature_type)
    /\ tracker = NoTracker /\ tlast = NoTransformCall
    /\ registry = <<>> /\ heap = <<>> /\ lists = <<>> /\ plast = NoResult
    /\ doc = EmptyDocument
    /\ gstate = "loaded" /\ error = NONE /\ nodes = <<>> /\ edges = {}
    /\ cycle = <<>> /\ order = <<>> /\ is_valid = <<>> /\ valid_nodes = {}
    /\ lastCall = NoCall
    /\ raw_parameters = <<>> /\ resolved_cache = <<>> /\ resolution_stack = <<>>
    /\ rlast = NoResolverCall
    /\ bstate = "idle" /\ dispatched = <<>> /\ sketch_table = <<>> /\ outputs = <<>>
    /\ previous = NoSnapshot

Resolved(words, feature_type, r) ==
    slast' = [op |-> "resolve", selector |-> words, feature_type |-> feature_type,
              ok |-> r.ok, error |-> r.error, features |-> r.features]

\* resolver.resolve(selector, feature_type)
CallResolve ==
    /\ slast.op = "call"
    /\ Resolved(slast.selector, slast.feature_type,
                SelectorResolve(shape, slast.selector, slast.feature_type))
    /\ UNCHANGED <<shape, tracker, tlast, gvars, rvars, pvars, bvars>>

NextSelector == CallResolve

SpecSelector == InitSelector /\ [][NextSelector]_vars

(***************************************************************************)
(* RevolveBuilder                                                          *)
(***************************************************************************)
Number(v) == [kind |-> "num", s |-> NONE, id |-> v]

\* a revolve spec without ${...} expressions: keys are the keys it holds
RevolveSpec(keys, sketch, axis, angle, origin) ==
    [keys |-> keys, sketch |-> sketch, axis |-> axis, angle |-> angle, origin |-> origin]

\* a Sketch2D: its name and the operation of each of its shapes
Sketch2D(name, shapes) == [name |-> name, shapes |-> shapes]

Revolved(geometry) == [ok |-> TRUE, geometry |-> geometry, message |-> NONE, kernel |-> TRUE]

\* a RevolveBuilderError; kernel tells whether _revolve_sketch had been entered
NotRevolved(message, kernel) ==
    [ok |-> FALSE, geometry |-> <<>>, message |-> message, kernel |-> kernel]

\* str(axis).upper()
Upper(axis) == IF axis = "x" THEN "X" ELSE IF axis = "y" THEN "Y"
               ELSE IF axis = "z" THEN "Z" ELSE axis

\* resolved_spec.get('angle', 360)
AngleOf(spec) == IF "angle" \in spec.keys THEN spec.angle ELSE Number(360)

\* resolved_spec.get('origin', [0, 0, 0])
OriginOf(spec) == IF "origin" \in spec.keys THEN spec.origin ELSE <<0, 0, 0>>

\* what the kernel's revolve takes: an angle in (0, 360]; what it does with
\* any other angle is the kernel's choice, accepts
InRange(angle) == 0 < angle /\ angle <= 360

\* _revolve_sketch: the first additive shape is built and revolved, the
\* others revolved and unioned, the subtractive ones revolved and cut
RevolveSketch(sketch, axis, angle, accepts) ==
    IF \A i \in 1..Len(sketch.shapes) : sketch.shapes[i] # "add"
    THEN NotRevolved("Failed to revolve sketch", TRUE)
    ELSE IF ~InRange(angle) /\ ~accepts
    THEN NotRevolved("Failed to revolve sketch", TRUE)
    ELSE Revolved(<<"revolve", sketch.name, axis, ToString(angle)>>)

\* the validation of execute_revolve_operation, then _revolve_sketch
RevolveGeometry(sketches, spec, accepts) ==
    IF "sketch" \notin spec.keys \/ spec.sketch = NONE
    THEN NotRevolved("missing required 'sketch' field", FALSE)
    ELSE IF spec.sketch \notin DOMAIN sketches
    THEN NotRevolved("Sketch not found", FALSE)
    ELSE IF "axis" \notin spec.keys \/ spec.axis = NONE
    THEN NotRevolved("missing required 'axis' field", FALSE)
    ELSE IF Upper(spec.axis) \notin {"X", "Y", "Z"}
    THEN NotRevolved("Invalid revolve axis", FALSE)
    ELSE IF AngleOf(spec).kind # "num"
    THEN NotRevolved("Revolve angle must be a number", FALSE)
    ELSE IF Len(OriginOf(spec)) # 3
    THEN NotRevolved("Revolve origin must be [x, y, z]", FALSE)
    ELSE RevolveSketch(sketches[spec.sketch], Upper(spec.axis), AngleOf(spec).id, accepts)

RevolveMetadata(spec) ==
    ("source" :> Str("revolve")) @@ ("sketch" :> Str(spec.sketch))
    @@ ("operation_type" :> Str("revolve")) @@ ("axis" :> Str(Upper(spec.axis)))
    @@ ("angle" :> AngleOf(spec)) @@ ("origin" :> Str(ToString(OriginOf(spec))))

\* the tail of execute_revolve_operation: Part(...) and registry.add, whose
\* ValueError on a registered name is re-raised as a RevolveBuilderError
RevolveResult(st, name, spec, g) ==
    IF ~g.ok THEN Fail(st, "RevolveBuilderError")
    ELSE IF RegistryExists(st.registry, name) THEN Fail(st, "RevolveBuilderError")
    ELSE NewPart(st, name, g.geometry, RevolveMetadata(spec))

\* execute_revolve_operation(name, spec)
ExecuteRevolveOperation(st, name, spec, accepts) ==
    RevolveResult(st, name, spec, RevolveGeometry(st.sketches, spec, accepts))

(***************************************************************************)
(* Actions of the revolve builder                                          *)
(***************************************************************************)
RevolveKeys == {"sketch", "axis", "angle", "origin"}

Angles == {Number(90), Number(360), Number(0), Number(0 - 90), Number(400), Str("half")}

RevolveSpecs ==
    {RevolveSpec(RevolveKeys, "profile", "Z", angle, <<0, 0, 0>>) : angle \in Angles}
    \cup {RevolveSpec(RevolveKeys \ {missing}, "profile", "Z", Number(90), <<0, 0, 0>>) :
            missing \in RevolveKeys}
    \cup {RevolveSpec(RevolveKeys, sketch, "Z", Number(90), <<0, 0, 0>>) :
            sketch \in {"holes", "ghost"}}
    \cup {RevolveSpec(RevolveKeys, "profile", axis, Number(90), <<0, 0, 0>>) :
            axis \in {"z", "W"}}
    \cup {RevolveSpec(RevolveKeys, "profile", "Z", Number(90), <<0, 0>>)}

Sketches ==
    ("profile" :> Sketch2D("profile", <<"add", "subtract">>))
    @@ ("holes" :> Sketch2D("holes", <<"subtract">>))

\* RevolveBuilder(part_registry, sketches, parameter_resolver)
InitRevolve ==
    /\ \E parts \in Sections({"b"}, {<<>>}, 1) :
        /\ registry = [i \in 1..Len(parts) |-> [name |-> parts[i].name, ref |-> i]]
        /\ heap = [i \in 1..Len(parts) |->
                     Part(parts[i].name, <<parts[i].name>>, parts[i].spec, <<>>, <<0, 0, 0>>)]
    /\ lists = <<>> /\ plast = NoResult
    /\ sketch_table = Sketches
    /\ doc = EmptyDocument
    /\ gstate = "loaded" /\ error = NONE /\ nodes = <<>> /\ edges = {}
    /\ cycle = <<>> /\ order = <<>> /\ is_valid = <<>> /\ valid_nodes = {}
    /\ lastCall = NoCall
    /\ raw_parameters = <<>> /\ resolved_cache = <<>> /\ resolution_stack = <<>>
    /\ rlast = NoResolverCall
    /\ bstate = "idle" /\ dispatched = <<>> /\ outputs = <<>>
    /\ previous = NoSnapshot
    /\ tracker = NoTracker /\ tlast = NoTransformCall
    /\ shape = NoShape /\ slast = NoSelection

RevolveStore == Store(registry, heap, lists, sketch_table, <<>>, <<>>)

RevolveCalled(name, spec, g, st) ==
    /\ registry' = st.registry
    /\ heap' = st.heap
    /\ plast' = [op |-> "revolve", arg |-> name, ok |-> st.ok, error |-> st.error,
                 spec |-> spec, before |-> registry, heap_before |-> heap,
                 message |-> g.message, kernel |-> g.kernel]

\* revolve_builder.execute_revolve_operation(name, spec); accepts is what the
\* kernel does with an angle outside (0, 360]
CallRevolve(name, spec, accepts) ==
    /\ Len(registry) < MaxObjects
    /\ plast.op = "revolve" => plast.ok
    /\ RevolveCalled(name, spec, RevolveGeometry(sketch_table, spec, accepts),
                     ExecuteRevolveOperation(RevolveStore, name, spec, accepts))
    /\ UNCHANGED <<lists, gvars, rvars, bvars, xvars>>

NextRevolve ==
    \E name \in {"r", "r2", "b"}, spec \in RevolveSpecs, accepts \in BOOLEAN :
        CallRevolve(name, spec, accepts)

SpecRevolve == InitRevolve /\ [][NextRevolve]_vars

(***************************************************************************)
(* Properties of the resolver                                              *)
(***************************************************************************)
Operands(value) == IF value.op = "id" THEN <<value.l>> ELSE <<value.l, value.r>>

\* every name an expression mentions is declared, and no expression is
\* malformed or divides by the literal zero
Evaluable(raw) ==
    \A i \in 1..Len(raw) :
        raw[i].spec.kind = "expr" =>
            /\ raw[i].spec.op \in {"id", "+", "*", "/"}
            /\ \A k \in 1..Len(Operands(raw[i].spec)) :
                Operands(raw[i].spec)[k].n \in {NONE} \cup Range(RawNames(raw))
            /\ ~(raw[i].spec.op = "/" /\ raw[i].spec.r = Const(0))

CycleFree(raw) == \A n \in Range(RawNames(raw)) : ~OnReferenceCycle(raw, n)

\* the value of a parameter by the meaning of its expression: the operator
\* applied to the values of the parameters it refers to
RECURSIVE Denote(_, _)
Denote(raw, n) ==
    LET value == RawValue(raw, n)
        x == IF value.l.n = NONE THEN value.l.c ELSE Denote(raw, value.l.n)
        y == IF value.r.n = NONE THEN value.r.c ELSE Denote(raw, value.r.n)
    IN IF value.kind = "lit" THEN value.v
       ELSE IF value.op = "id" THEN x
       ELSE IF value.op = "+" THEN x + y
       ELSE IF value.op = "*" THEN x * y
       ELSE x \div y

\* C11: resolve_all on a cycle-free map whose expressions can all be
\* evaluated returns, for every parameter, the value of its expression over
\* the values of the parameters it refers to.
C11_ResolveAllDenotes ==
    (rlast.op = "resolve_all" /\ CycleFree(raw_parameters) /\ Evaluable(raw_parameters)) =>
        /\ rlast.out.ok
        /\ DOMAIN rlast.out.val = Range(RawNames(raw_parameters))
        /\ \A n \in Range(RawNames(raw_parameters)) :
            rlast.out.val[n] = Denote(raw_parameters, n)

C11_Witness ==
    /\ rlast.op = "resolve_all"
    /\ rlast.out.ok
    /\ RawNames(raw_parameters) = <<"a", "b", "c">>
    /\ rlast.out.val = [a |-> 10, b |-> 20, c |-> 30]

\* the same parameters declared in another order
Reorderings(raw) ==
    {other \in [1..Len(raw) -> Range(raw)] : Range(other) = Range(raw)}

\* C12: get_parameter(p) has the same outcome (the same value, or a failure)
\* whatever the declaration order of the parameters and whatever calls,
\* successful or not, filled the cache before it.
C12_SameOutcome ==
    rlast.op = "get_parameter" =>
        \A other \in Reorderings(raw_parameters) :
            LET fresh == GetParameter(other, <<>>, <<>>, rlast.arg, 1)
            IN /\ fresh.ok = rlast.out.ok
               /\ fresh.ok => fresh.val = rlast.out.val

\* a second call for a parameter, served after other calls filled the cache
C12_Witness ==
    /\ rlast.op = "get_parameter"
    /\ rlast.out.ok
    /\ rlast.arg \in DOMAIN rlast.before
    /\ Len(raw_parameters) >= 2
    /\ \E n \in Range(RawNames(raw_parameters)) :
        ~GetParameter(raw_parameters, <<>>, <<>>, n, 1).ok

\* the parameters that resolving n needs and whose own resolution fails
FailingNeeds(raw, n) ==
    {p \in RawRefs(raw, n) : ~GetParameter(raw, <<>>, <<>>, p, 1).ok}

\* C13: when get_parameter(n) needs a parameter p whose own resolution
\* fails, the call fails with p's error, carrying p's expression.
C13_InnerErrorReachesCaller ==
    (/\ rlast.op = "get_parameter"
     /\ rlast.arg \in Range(RawNames(raw_parameters))
     /\ CycleFree(raw_parameters)
     /\ FailingNeeds(raw_parameters, rlast.arg) # {}) =>
        /\ ~rlast.out.ok
        /\ \E p \in FailingNeeds(raw_parameters, rlast.arg) :
            LET inner == GetParameter(raw_parameters, <<>>, <<>>, p, 1)
            IN /\ rlast.out.err.kind = inner.err.kind
               /\ rlast.out.err.expression = inner.err.expression

\* the expression of n divides by the literal zero and its dividend has a value
DividesByZero(raw, n) ==
    /\ n \in Range(RawNames(raw))
    /\ RawValue(raw, n).kind = "expr"
    /\ RawValue(raw, n).op = "/"
    /\ RawValue(raw, n).r = Const(0)
    /\ \/ RawValue(raw, n).l.n = NONE
       \/ /\ RawValue(raw, n).l.n \in Range(RawNames(raw))
          /\ GetParameter(raw, <<>>, <<>>, RawValue(raw, n).l.n, 1).ok

\* C14: get_parameter of a parameter whose expression divides by zero fails
\* with a division-by-zero error that carries the expression, and the
\* parameter gets no entry in the cache.
C14_DivisionByZeroReported ==
    (rlast.op = "get_parameter" /\ DividesByZero(raw_parameters, rlast.arg)) =>
        /\ ~rlast.out.ok
        /\ rlast.out.err.kind = "ZeroDivisionError"
        /\ rlast.out.err.expression = RawValue(raw_parameters, rlast.arg)
        /\ rlast.arg \notin DOMAIN resolved_cache

C14_Witness ==
    /\ rlast.op = "get_parameter"
    /\ DividesByZero(raw_parameters, rlast.arg)
    /\ rlast.out.err.kind = "ZeroDivisionError"
    /\ RawValue(raw_parameters, rlast.arg).l.n \in DOMAIN resolved_cache

\* C30: after every call of get_parameter, resolve or resolve_all, whether
\* it returned or raised, the resolution stack is empty and every cached
\* value is the value get_parameter returns for that parameter on a resolver
\* that has resolved nothing yet.
C30_StackEmptyCacheSound ==
    (rlast.op # "none") =>
        /\ resolution_stack = <<>>
        /\ \A n \in DOMAIN resolved_cache :
            LET fresh == GetParameter(raw_parameters, <<>>, <<>>, n, 1)
            IN fresh.ok /\ fresh.val = resolved_cache[n]

C30_Witness ==
    /\ rlast.op = "get_parameter"
    /\ rlast.arg \in Range(RawNames(raw_parameters))
    /\ OnReferenceCycle(raw_parameters, rlast.arg)
    /\ ~rlast.out.ok
    /\ rlast.before = <<>>
    /\ resolved_cache # <<>>
    /\ resolution_stack = <<>>

(***************************************************************************)
(* Properties of the boolean builder                                       *)
(***************************************************************************)
\* C15: a union or intersection whose inputs expand to fewer than two
\* entries fails with BooleanBuilderError and leaves the registry as it
\* was; one whose inputs expand to two or more registered parts, a single
\* wildcard included, is built and registered under a free name.
C15_AtLeastTwoInputs ==
    (plast.op = "boolean" /\ plast.spec.operation \in {"union", "intersection"}) =>
        LET x == ExpandPartList(plast.before, plast.spec.inputs)
        IN /\ (~x.ok \/ Len(x.names) < 2) =>
                /\ ~plast.ok
                /\ plast.error = "BooleanBuilderError"
                /\ registry = plast.before
           /\ (/\ x.ok /\ Len(x.names) >= 2
               /\ \A i \in 1..Len(x.names) : RegistryExists(plast.before, x.names[i])
               /\ ~RegistryExists(plast.before, plast.arg)) =>
                /\ plast.ok
                /\ ListParts(registry) = Append(ListParts(plast.before), plast.arg)

C15_Witness ==
    /\ plast.op = "boolean"
    /\ plast.spec.operation = "union"
    /\ plast.spec.inputs = <<Wildcard("h")>>
    /\ plast.ok
    /\ RegistryExists(registry, "r")

\* C16: when the expansion of the part list fails, the error raised lists
\* the parts the registry holds.
C16_ExpansionErrorListsParts ==
    (/\ plast.op = "boolean"
     /\ plast.spec.operation \in {"union", "difference", "intersection"}
     /\ ~ExpandPartList(plast.before, ExpandedList(plast.spec)).ok) =>
        /\ ~plast.ok
        /\ plast.message.lists_parts
        /\ plast.message.available = ListParts(plast.before)

EndsWith(text, suffix) ==
    /\ Len(text) >= Len(suffix)
    /\ SubSeq(text, Len(text) - Len(suffix) + 1, Len(text)) = suffix

\* the registry names a wildcard text stands for: those that start with
\* the text before a trailing '*', those that end with the text after a
\* leading '*'
WildcardNames(reg, text) ==
    IF SubSeq(text, Len(text), Len(text)) = "*"
    THEN {n \in Range(ListParts(reg)) : StartsWith(n, SubSeq(text, 1, Len(text) - 1))}
    ELSE {n \in Range(ListParts(reg)) : EndsWith(n, SubSeq(text, 2, Len(text)))}

\* C17: a part list of one wildcard entry, prefix* or *suffix, expands to
\* exactly the registry names that start with prefix, or end with suffix.
C17_WildcardExpansion ==
    (/\ plast.op = "boolean"
     /\ Len(ExpandedList(plast.spec)) = 1
     /\ ExpandedList(plast.spec)[1].kind \in {"name", "wildcard"}
     /\ HasStar(EntryText(ExpandedList(plast.spec)[1]))) =>
        LET expected == WildcardNames(plast.before, EntryText(ExpandedList(plast.spec)[1]))
        IN /\ Range(plast.expanded.names) = expected
           /\ expected # {} => plast.expanded.ok

\* the appearance a part carries: its metadata under the propagating keys
Appearance(metadata) ==
    [k \in PROPAGATING_METADATA \cap DOMAIN metadata |-> metadata[k]]

MetadataOf(reg, name) == heap[RegistryGet(reg, name)].metadata

DictAt(h, ref) == IF ref = NoDict THEN <<>> ELSE h[ref]

\* C19: the dict copy_propagating_metadata returns holds the keys of the
\* target, the propagating keys of the source and the keys of the
\* overrides; an override wins, then a propagating key of the source, then
\* the target, so a key of the source that is specific to an operation
\* never comes from the source; the result is a new dict and the dicts
\* passed in are as they were.
C19_CopyPropagating ==
    plast.op = "copy_propagating_metadata" =>
        LET S == DictAt(plast.before, plast.source)
            T == DictAt(plast.before, plast.target)
            O == DictAt(plast.before, plast.overrides)
            R == heap[plast.result]
        IN /\ DOMAIN R = DOMAIN T \cup (PROPAGATING_METADATA \cap DOMAIN S) \cup DOMAIN O
           /\ \A k \in DOMAIN R :
                R[k] = IF k \in DOMAIN O THEN O[k]
                       ELSE IF k \in PROPAGATING_METADATA \cap DOMAIN S THEN S[k]
                       ELSE T[k]
           /\ \A k \in OPERATION_SPECIFIC_METADATA \cap DOMAIN S :
                (k \notin DOMAIN T \cup DOMAIN O) => k \notin DOMAIN R
           /\ plast.result \notin 1..Len(plast.before)
           /\ \A i \in 1..Len(plast.before) : heap[i] = plast.before[i]

C19_Witness ==
    /\ plast.op = "copy_propagating_metadata"
    /\ plast.source = 1 /\ plast.target = 2 /\ plast.overrides = 3
    /\ DOMAIN plast.before[1] = {"color", "finish", "primitive_type"}
    /\ DOMAIN plast.before[2] = {"operation_type", "color"}
    /\ DOMAIN plast.before[3] = {"color"}
    /\ heap[plast.result] = [color |-> Str("override"), finish |-> Str("of_source"),
                             operation_type |-> Str("of_operation")]

(***************************************************************************)
(* Properties of Part.clone                                                *)
(***************************************************************************)
\* what a part is seen to hold: its geometry, its metadata with the lists
\* nested in it, and its transform history
PartState(h, ls, ref) ==
    <<h[ref].geometry, MetadataValue(ls, h[ref].metadata), h[ref].transform_history>>

\* C20: a change made to one part (here by a finishing operation, which
\* replaces its geometry and appends to the finishing_ops list in its
\* metadata) leaves every other part, its clones and the part it was cloned
\* from included, as it was.
C20_CloneIndependent ==
    [][(plast'.op = "finishing" /\ plast'.ok) =>
        \A Q \in (1..Len(heap)) \ {RegistryGet(registry, plast'.arg)} :
            PartState(heap', lists', Q) = PartState(heap, lists, Q)]_vars

\* the parameters whose own name stands inside the ${...} of their value
SelfReferring(d) ==
    {d.parameters[i].name : i \in {j \in 1..Len(d.parameters) :
        d.parameters[j].name \in FindParameterRefs(d.parameters[j].spec)}}

\* C27: build_graph on a document with a parameter whose expression refers
\* to the parameter itself raises the circular-dependency error, as it does
\* for a cycle through several parameters.
C27_SelfReferenceRejected ==
    (gstate # "loaded" /\ SelfReferring(doc) # {}) =>
        /\ gstate = "failed"
        /\ error = "CircularDependency"

\* C28: execute_boolean_operation changes the registry only by its result:
\* when it returns, the registry is the one before the call with one entry
\* named name appended and every part that was registered is as it was;
\* when it raises, the registry and its parts are as they were.
C28_RegistryFrame ==
    (plast.op = "boolean") =>
        IF plast.ok
        THEN /\ ~RegistryExists(plast.before, plast.arg)
             /\ registry = Append(plast.before, [name |-> plast.arg, ref |-> Len(heap)])
             /\ Len(heap) = Len(plast.heap_before) + 1
             /\ heap[Len(heap)].name = plast.arg
             /\ \A i \in 1..Len(plast.heap_before) : heap[i] = plast.heap_before[i]
        ELSE /\ registry = plast.before
             /\ heap = plast.heap_before

C28_Witness ==
    /\ plast.op = "boolean"
    /\ plast.ok
    /\ plast.spec.operation = "difference"
    /\ Len(plast.before) >= 2
    /\ RegistryExists(registry, plast.arg)

\* C29: topological_sort(S) puts A before B whenever A and B are in S and A
\* is an ancestor of B in the full graph, also when the nodes on the paths
\* from A to B are not in S.
C29_SubsetOrderTransitive ==
    (lastCall.op = "topological_sort_of") =>
        \A A \in lastCall.arg, B \in lastCall.arg :
            A \in Ancestors(edges, B) => Precedes(order, A, B)

(***************************************************************************)
(* Properties of the transforms                                            *)
(***************************************************************************)
\* every entry holds both positions and starts where the entry before it ended
Chained(history) ==
    \A i \in 1..Len(history) :
        /\ {"position_before", "position_after"} \subseteq DOMAIN history[i]
        /\ i > 1 => history[i].position_before = history[i - 1].position_after

\* C21: every entry of a transform history, that of a tracker and that of
\* a Part, records position_before and position_after, and each entry's
\* position_before is the position_after of the entry before it.
C21_HistoryChained ==
    (tracker # NoTracker) =>
        /\ Chained(tracker.history)
        /\ Chained(heap[1].transform_history)

\* C22: apply_transform of a rotate without an origin raises and leaves
\* the tracked position, the geometry and the history as they were.
C22_RotateNeedsOrigin ==
    (/\ tlast.op = "apply_transform"
     /\ tlast.transform.type = "rotate"
     /\ "origin" \notin tlast.transform.keys) =>
        /\ ~tlast.ok
        /\ tlast.error = "ValueError"
        /\ tracker = tlast.before

C22_Witness ==
    /\ tlast.op = "apply_transform"
    /\ tlast.transform.keys = {"type", "angle", "axis"}
    /\ tlast.transform.axis = "Z"
    /\ ~tlast.ok
    /\ tracker.history # <<>>
    /\ tracker.current_position # tracker.initial_position

(***************************************************************************)
(* Properties of the selector resolver                                     *)
(***************************************************************************)
\* a simple selector, not <simple>, <simple> and <simple>, <simple> or <simple>
Flat(words) ==
    \/ IsSimple(words)
    \/ Len(words) = 2 /\ words[1] = "not" /\ IsSimple(<<words[2]>>)
    \/ Len(words) = 3 /\ words[2] \in {"and", "or"}
       /\ IsSimple(<<words[1]>>) /\ IsSimple(<<words[3]>>)

\* C23: resolve accepts a selector only if it is simple, not <simple>,
\* <simple> and <simple> or <simple> or <simple>; every other string,
\* such as one that mixes combinators, is rejected.
C23_OnlyFlatSelectorsAccepted ==
    (slast.op = "resolve" /\ slast.ok) => Flat(slast.selector)

\* C24: for a simple selector s and the kinds face and edge, the result of
\* "not s" and the result of s are disjoint and together are all the
\* features of that kind.
C24_NotIsComplement ==
    (/\ slast.op = "resolve"
     /\ Len(slast.selector) = 2 /\ slast.selector[1] = "not"
     /\ IsSimple(Tail(slast.selector))
     /\ slast.feature_type \in {"face", "edge"}) =>
        LET inner == SelectorResolve(shape, Tail(slast.selector), slast.feature_type)
        IN /\ slast.ok /\ inner.ok
           /\ SetOf(slast.features) \cap SetOf(inner.features) = {}
           /\ SetOf(slast.features) \cup SetOf(inner.features)
                = OfKind(shape, slast.feature_type)
           /\ Len(slast.features) = Cardinality(SetOf(slast.features))

C24_Witness ==
    /\ slast.op = "resolve"
    /\ slast.selector = <<"not", "|Z">>
    /\ slast.feature_type = "edge"
    /\ shape = Box
    /\ slast.ok
    /\ Len(slast.features) = 8

\* the features of a list with their multiplicities
BagOf(list) == [f \in SetOf(list) |-> Cardinality({i \in DOMAIN list : list[i] = f})]

\* C25: for simple selectors s1 and s2, "s1 and s2" and "s2 and s1" give
\* the same features with the same multiplicities, and so do "s1 or s2"
\* and "s2 or s1".
C25_Commutative ==
    (/\ slast.op = "resolve"
     /\ Len(slast.selector) = 3 /\ slast.selector[2] \in {"and", "or"}
     /\ IsSimple(<<slast.selector[1]>>) /\ IsSimple(<<slast.selector[3]>>)) =>
        LET swapped == SelectorResolve(shape,
                <<slast.selector[3], slast.selector[2], slast.selector[1]>>,
                slast.feature_type)
        IN /\ swapped.ok = slast.ok
           /\ BagOf(swapped.features) = BagOf(slast.features)

C25_Witness ==
    /\ slast.op = "resolve"
    /\ slast.selector = <<"|Z", "and", ">X">>
    /\ slast.feature_type = "edge"
    /\ shape = Box
    /\ slast.ok
    /\ Len(slast.features) = 2

(***************************************************************************)
(* Properties of the revolve builder                                       *)
(***************************************************************************)
\* C26: a revolve whose angle is a number outside (0, 360] raises before
\* the kernel is asked to build anything and leaves the registry as it was;
\* a revolve without an angle records the angle 360.
C26_AngleOutOfRangeRejected ==
    (plast.op = "revolve") =>
        /\ (/\ "angle" \in plast.spec.keys
            /\ plast.spec.angle.kind = "num"
            /\ ~InRange(plast.spec.angle.id)) =>
                /\ ~plast.ok
                /\ ~plast.kernel
                /\ registry = plast.before
                /\ heap = plast.heap_before
        /\ ("angle" \notin plast.spec.keys /\ plast.ok) =>
                PartOf(CurrentStore, plast.arg).metadata["angle"] = Number(360)

====
